---- MODULE Spec2Model ----
(***************************************************************************)
(* Brain Notes (src/app.py): the content hierarchy and ordered-collection  *)
(* storage engine.  The five tables of init_db are the state; an HTTP      *)
(* handler or a chat tool that writes them is one action.  A handler       *)
(* is a sequence of SQL statements on one connection, committed at its end *)
(* or rolled back when a statement raises (sqlite3's `with conn:`); the    *)
(* statements are operators on a store record, the handlers compose them.  *)
(* PRAGMA foreign_keys=ON (get_db) makes the FOREIGN KEY clauses of the    *)
(* schema effective: they are part of the statements below.                *)
(***************************************************************************)
EXTENDS Integers, Sequences, FiniteSets, TLC

\* ------------------------------------------------------------------ bounds
MaxPages == 3
MaxBlocks == 4
MaxDbs == 2
MaxItems == 2
MaxViews == 2
MaxOrder == 3
\* Requests per behaviour.
MaxOps == 5

PageIds == 1..MaxPages
BlockIds == 1..MaxBlocks
DbIds == 1..MaxDbs
ItemIds == 1..MaxItems
ViewIds == 1..MaxViews

\* SQL NULL / Python None / an absent optional argument (ids start at 1).
NULL == 0

\* Connections that run their handler one statement at a time.
MaxConns == 2
Conns == 1..MaxConns

\* The five tables of init_db, each a function from the ids of its rows to
\* the rows, as committed to notes.db; last and nops observe the requests
\* (they are no program state).  txn is, per connection of get_db, the
\* request it is running and its uncommitted image of the tables; lock is
\* the connection holding SQLite's write lock, NULL when it is free.
VARIABLES pages, blocks, databases, db_items, db_views, last, nops, txn, lock

vars == <<pages, blocks, databases, db_items, db_views, last, nops, txn, lock>>

\* ------------------------------------------------------------------ store
\* The tables as one value: what a connection sees between two statements.
\* err is set by the statement that raised (sqlite3.IntegrityError or any
\* other exception); the statements after it are not executed.
Store ==
  [pages |-> pages, blocks |-> blocks, databases |-> databases,
   db_items |-> db_items, db_views |-> db_views, err |-> FALSE, stamped |-> {}]

EmptyTable == [x \in {} |-> 0]

Raise(s) == [s EXCEPT !.err = TRUE]

\* gen_id(): uuid4 prefix, an id no row carries; the least free one stands
\* for it (every operation treats ids as opaque).
gen_id(used, pool) == CHOOSE i \in pool \ used : \A j \in pool \ used : i <= j

\* COALESCE(MAX(sort_order),0) over the selected rows' sort_order values.
Max(S) == CHOOSE m \in S : \A x \in S : x <= m
coalesce_max(S) == IF S = {} THEN 0 ELSE Max(S)

\* sort_order values the model lets a table hold (MaxOrder caps the counters).
Orders == 0..MaxOrder

Bounded(s) ==
  /\ \A p \in DOMAIN s.pages : s.pages[p].sort_order \in Orders
  /\ \A b \in DOMAIN s.blocks : s.blocks[b].sort_order \in Orders
  /\ \A i \in DOMAIN s.db_items : s.db_items[i].sort_order \in Orders
  /\ \A v \in DOMAIN s.db_views : s.db_views[v].sort_order \in Orders

\* What the last request was and how it ended: the handler's name; "ok",
\* "error" (an exception: HTTP 500, or the tool's "Error executing") or
\* "not_found" (404); the id it named or generated; its other arguments;
\* the rows whose updated_at it wrote; the tables as it found them.
Outcome(op, res, id, args, s) ==
  [op |-> op, res |-> res, id |-> id, args |-> args, stamped |-> s.stamped,
   before |-> [pages |-> pages, blocks |-> blocks, databases |-> databases,
               db_items |-> db_items, db_views |-> db_views]]

\* conn.commit() at the end of the `with` block, or its rollback when a
\* statement raised: the image s of the connection becomes the tables.
Commit(s, op, id, args) ==
  /\ nops < MaxOps
  /\ nops' = nops + 1
  /\ Bounded(s)
  /\ IF s.err
       THEN /\ UNCHANGED <<pages, blocks, databases, db_items, db_views>>
            /\ last' = Outcome(op, "error", id, args, Store)
       ELSE /\ pages' = s.pages
            /\ blocks' = s.blocks
            /\ databases' = s.databases
            /\ db_items' = s.db_items
            /\ db_views' = s.db_views
            /\ last' = Outcome(op, "ok", id, args, s)

\* A handler run from its first statement to its commit with no other
\* connection in between: its whole effect on the tables.
Finish(s, op, id, args) ==
  /\ Commit(s, op, id, args)
  /\ UNCHANGED <<txn, lock>>

\* A handler that returns 404 before writing anything.
NotFound(op, id, args) ==
  /\ nops < MaxOps
  /\ nops' = nops + 1
  /\ UNCHANGED <<pages, blocks, databases, db_items, db_views, txn, lock>>
  /\ last' = Outcome(op, "not_found", id, args, Store)

\* ------------------------------------------------------------- statements
\* INSERT INTO pages: PRIMARY KEY(id); FOREIGN KEY(parent_id) REFERENCES
\* pages(id), checked against the table with the new row in it.
insert_page(s, id, row) ==
  IF s.err THEN s
  ELSE IF id \in DOMAIN s.pages THEN Raise(s)
  ELSE IF row.parent_id # NULL /\ row.parent_id \notin (DOMAIN s.pages \cup {id})
    THEN Raise(s)
  ELSE [s EXCEPT !.pages = (id :> row) @@ s.pages]

\* INSERT INTO blocks: PRIMARY KEY(id); FOREIGN KEY(page_id) REFERENCES pages.
insert_block(s, id, row) ==
  IF s.err THEN s
  ELSE IF id \in DOMAIN s.blocks \/ row.page_id \notin DOMAIN s.pages THEN Raise(s)
  ELSE [s EXCEPT !.blocks = (id :> row) @@ s.blocks]

\* DELETE FROM blocks WHERE page_id=?
delete_blocks_of(s, p) ==
  IF s.err THEN s
  ELSE [s EXCEPT !.blocks =
          [b \in {x \in DOMAIN s.blocks : s.blocks[x].page_id # p} |-> s.blocks[b]]]

\* A page delete without the foreign-key action on parent_id.
delete_page_row_plain(s, p) ==
  IF s.err \/ p \notin DOMAIN s.pages THEN s
  ELSE [s EXCEPT
          !.pages = [q \in DOMAIN s.pages \ {p} |-> s.pages[q]],
          !.blocks = [b \in {x \in DOMAIN s.blocks : s.blocks[x].page_id # p}
                        |-> s.blocks[b]],
          !.db_items = [i \in DOMAIN s.db_items |->
                          IF s.db_items[i].page_id = p
                            THEN [s.db_items[i] EXCEPT !.page_id = NULL]
                            ELSE s.db_items[i]]]

\* A page delete whose db_items.page_id were ON DELETE CASCADE: the items
\* linked to the page go with it.
delete_page_row_cascading(s, p) ==
  IF s.err \/ p \notin DOMAIN s.pages THEN s
  ELSE [s EXCEPT
          !.pages = [q \in DOMAIN s.pages \ {p} |->
                       IF s.pages[q].parent_id = p
                         THEN [s.pages[q] EXCEPT !.parent_id = NULL]
                         ELSE s.pages[q]],
          !.blocks = [b \in {x \in DOMAIN s.blocks : s.blocks[x].page_id # p}
                        |-> s.blocks[b]],
          !.db_items = [i \in {x \in DOMAIN s.db_items : s.db_items[x].page_id # p}
                          |-> s.db_items[i]]]

\* DELETE FROM pages WHERE id=?  with the schema's foreign-key actions:
\* pages.parent_id ON DELETE SET NULL, blocks.page_id ON DELETE CASCADE,
\* db_items.page_id ON DELETE SET NULL.
delete_page_row(s, p) ==
  IF s.err \/ p \notin DOMAIN s.pages THEN s
  ELSE [s EXCEPT
          !.pages = [q \in DOMAIN s.pages \ {p} |->
                       IF s.pages[q].parent_id = p
                         THEN [s.pages[q] EXCEPT !.parent_id = NULL]
                         ELSE s.pages[q]],
          !.blocks = [b \in {x \in DOMAIN s.blocks : s.blocks[x].page_id # p}
                        |-> s.blocks[b]],
          !.db_items = [i \in DOMAIN s.db_items |->
                          IF s.db_items[i].page_id = p
                            THEN [s.db_items[i] EXCEPT !.page_id = NULL]
                            ELSE s.db_items[i]]]

\* UPDATE <table> SET updated_at=now() WHERE id=?  The timestamps themselves
\* are not kept; the rows a handler stamped are recorded with its outcome.
stamp(s, table, id) ==
  IF s.err \/ id \notin DOMAIN s[table] THEN s
  ELSE [s EXCEPT !.stamped = @ \cup {<<table, id>>}]

\* SELECT id FROM pages WHERE parent_id=?
children_of(s, p) == {q \in DOMAIN s.pages : s.pages[q].parent_id = p}

\* ------------------------------------------------------------------ pages
\* A pages row.  icon, cover and the two timestamps are carried by no
\* statement's WHERE or ORDER BY that the checked properties read, and are
\* left out; the column defaults of init_db fill what an INSERT omits.
page_row(title, parent_id, workspace, sort_order) ==
  [title |-> title, parent_id |-> parent_id, workspace |-> workspace,
   sort_order |-> sort_order, is_favorite |-> FALSE]

\* A blocks row (type, indent_level and created_at left out likewise).
block_row(page_id, content, properties, sort_order) ==
  [page_id |-> page_id, content |-> content, properties |-> properties,
   sort_order |-> sort_order]

\* An empty JSON object, '{}'.  The TEXT columns properties and config hold
\* json.dumps of a bag with string keys; json.loads gives the bag back, so
\* the column is modelled by the bag it encodes.
EmptyBag == [k \in {} |-> ""]

\* POST /api/pages.  id is the caller's 'id' (NULL: none, gen_id() is used).
create_page(id, title, parent_id, workspace) ==
  /\ id = NULL => PageIds \ DOMAIN pages # {}
  \* a generated id is not known to the caller: parent_id cannot name it
  /\ id = NULL => parent_id \notin PageIds \ DOMAIN pages
                   \/ parent_id # gen_id(DOMAIN pages, PageIds)
  /\ BlockIds \ DOMAIN blocks # {}
  /\ LET s == Store
         page_id == IF id = NULL THEN gen_id(DOMAIN pages, PageIds) ELSE id
         max_order ==
           IF parent_id # NULL
             THEN coalesce_max({s.pages[q].sort_order : q \in
                    {x \in DOMAIN s.pages : s.pages[x].parent_id = parent_id}})
             ELSE coalesce_max({s.pages[q].sort_order : q \in
                    {x \in DOMAIN s.pages : /\ s.pages[x].parent_id = NULL
                                            /\ s.pages[x].workspace = workspace}})
         s1 == insert_page(s, page_id, page_row(title, parent_id, workspace, max_order + 1))
         block_id == gen_id(DOMAIN blocks, BlockIds)
         s2 == insert_block(s1, block_id, block_row(page_id, "", EmptyBag, 0))
     IN Finish(s2, "create_page", page_id,
               [title |-> title, parent_id |-> parent_id, workspace |-> workspace])

\* The columns update_page copies from the request when present.
PageFields == {"title", "parent_id", "sort_order", "is_favorite", "workspace"}

\* UPDATE pages SET f=?,... WHERE id=?  with the parent_id foreign key.
update_page_row(s, page_id, data) ==
  IF s.err THEN s
  ELSE LET old == s.pages[page_id]
           new == [f \in DOMAIN old |-> IF f \in DOMAIN data THEN data[f] ELSE old[f]]
       IN IF new.parent_id # NULL /\ new.parent_id \notin DOMAIN s.pages
            THEN Raise(s)
            ELSE [s EXCEPT !.pages[page_id] = new]

\* PUT /api/pages/<page_id>.  data is the request body: a record of the
\* supplied fields.
update_page(page_id, data) ==
  IF page_id \notin DOMAIN pages
    THEN NotFound("update_page", page_id, data)
    ELSE LET s == Store
             updates == DOMAIN data \cap PageFields
             s1 == IF updates # {}
                     THEN stamp(update_page_row(s, page_id, data), "pages", page_id)
                     ELSE s
         IN Finish(s1, "update_page", page_id, data)

\* delete_page_recursive: the children first, then the page's blocks and
\* the page.  depth counts the Python frames: a chain of children longer
\* than the number of rows has come back to a page it left, so it never
\* ends by itself and the interpreter's recursion limit ends it
\* (RecursionError, an exception like any other to `with conn:`).
RECURSIVE delete_page_recursive(_, _, _)
RECURSIVE delete_children(_, _, _)
delete_page_recursive(s, page_id, depth) ==
  IF s.err THEN s
  ELSE IF depth > Cardinality(DOMAIN pages) THEN Raise(s)
  ELSE LET s1 == delete_children(s, children_of(s, page_id), depth + 1)
       IN delete_page_row(delete_blocks_of(s1, page_id), page_id)

\* for child in children: delete_page_recursive(conn, child['id'])
delete_children(s, children, depth) ==
  IF children = {} \/ s.err THEN s
  ELSE LET child == CHOOSE c \in children : \A d \in children : c <= d
       IN delete_children(delete_page_recursive(s, child, depth),
                          children \ {child}, depth)

\* A delete_page that fails on an id without a row.
delete_page_strict(page_id) ==
  LET s == Store
      s1 == delete_children(s, children_of(s, page_id), 1)
      s2 == delete_page_row(delete_blocks_of(s1, page_id), page_id)
  IN Finish(IF page_id \in DOMAIN s.pages THEN s2 ELSE Raise(s),
            "delete_page", page_id, <<>>)

\* A delete_page that forgets the walk over the children.
delete_page_shallow(page_id) ==
  LET s == Store
      s1 == delete_page_row(delete_blocks_of(s, page_id), page_id)
  IN Finish(s1, "delete_page", page_id, <<>>)

\* DELETE /api/pages/<page_id>
delete_page(page_id) ==
  LET s == Store
      s1 == delete_children(s, children_of(s, page_id), 1)
      s2 == delete_page_row(delete_blocks_of(s1, page_id), page_id)
  IN Finish(s2, "delete_page", page_id, <<>>)

\* A reorder that numbers the positions from 1.
RECURSIVE reorder_rows_from_one(_, _, _, _)
reorder_rows_from_one(table, order, idx, owner) ==
  IF idx >= Len(order) THEN table
  ELSE LET id == order[idx + 1]
       IN reorder_rows_from_one(
            IF id \in DOMAIN table /\ (owner = NULL \/ table[id].page_id = owner)
              THEN [table EXCEPT ![id].sort_order = idx + 1]
              ELSE table,
            order, idx + 1, owner)

\* for idx, pid in enumerate(order): UPDATE <table> SET sort_order=idx WHERE id=pid
\* (an id with no row updates nothing); rows(pid) says which rows the WHERE
\* clause of the table's handler selects.
RECURSIVE reorder_rows(_, _, _, _)
reorder_rows(table, order, idx, owner) ==
  IF idx >= Len(order) THEN table
  ELSE LET id == order[idx + 1]
       IN reorder_rows(
            IF id \in DOMAIN table /\ (owner = NULL \/ table[id].page_id = owner)
              THEN [table EXCEPT ![id].sort_order = idx]
              ELSE table,
            order, idx + 1, owner)

\* A reorder that moves the pages its list leaves out behind the list.
reorder_pages_closing(order) ==
  LET s == Store
      listed == {order[i] : i \in 1..Len(order)}
      t == reorder_rows(s.pages, order, 0, NULL)
      s1 == [s EXCEPT !.pages = [p \in DOMAIN t |->
                                   IF p \in listed THEN t[p]
                                   ELSE [t[p] EXCEPT !.sort_order = Len(order)]]]
  IN Finish(s1, "reorder_pages", NULL, order)

\* PUT /api/pages/reorder
reorder_pages(order) ==
  LET s == Store
      s1 == [s EXCEPT !.pages = reorder_rows(s.pages, order, 0, NULL)]
  IN Finish(s1, "reorder_pages", NULL, order)

\* execute_tool("create_page"): a root page of workspace 'docs' at
\* sort_order 0 and the given blocks at sort_order 0, 1, ...
RECURSIVE tool_insert_blocks(_, _, _, _)
tool_insert_blocks(s, page_id, contents, i) ==
  IF i >= Len(contents) \/ s.err THEN s
  ELSE tool_insert_blocks(
         insert_block(s, gen_id(DOMAIN s.blocks, BlockIds),
                      block_row(page_id, contents[i + 1], EmptyBag, i)),
         page_id, contents, i + 1)

tool_create_page(title, contents) ==
  /\ PageIds \ DOMAIN pages # {}
  /\ Cardinality(BlockIds \ DOMAIN blocks) >= Len(contents)
  /\ LET s == Store
         page_id == gen_id(DOMAIN pages, PageIds)
         s1 == insert_page(s, page_id, page_row(title, NULL, "docs", 0))
         s2 == tool_insert_blocks(s1, page_id, contents, 0)
     IN Finish(s2, "tool_create_page", page_id, contents)

\* execute_tool("delete_page"): the page's blocks and the page row only.
tool_delete_page(page_id) ==
  LET s == Store
      s1 == delete_page_row(delete_blocks_of(s, page_id), page_id)
  IN Finish(s1, "tool_delete_page", page_id, <<>>)

\* ----------------------------------------------------------------- blocks
\* A shift that leaves the block at the insertion point where it is.
shift_blocks_above(s, page_id, sort_order) ==
  [s EXCEPT !.blocks =
     [b \in DOMAIN s.blocks |->
        IF s.blocks[b].page_id = page_id /\ s.blocks[b].sort_order > sort_order
          THEN [s.blocks[b] EXCEPT !.sort_order = @ + 1]
          ELSE s.blocks[b]]]

\* An insert after a block that moves no block out of the way.
shift_blocks_none(s, page_id, sort_order) == s

\* UPDATE blocks SET sort_order = sort_order + 1
\*   WHERE page_id=? AND sort_order >= ?
shift_blocks(s, page_id, sort_order) ==
  [s EXCEPT !.blocks =
     [b \in DOMAIN s.blocks |->
        IF s.blocks[b].page_id = page_id /\ s.blocks[b].sort_order >= sort_order
          THEN [s.blocks[b] EXCEPT !.sort_order = @ + 1]
          ELSE s.blocks[b]]]

\* POST /api/pages/<page_id>/blocks.  id is the caller's 'id' (NULL: none,
\* gen_id() is used), after_id the caller's 'after_id' (NULL: none).
create_block(page_id, id, content, properties, after_id) ==
  /\ id = NULL => BlockIds \ DOMAIN blocks # {}
  /\ LET s == Store
         block_id == IF id = NULL THEN gen_id(DOMAIN blocks, BlockIds) ELSE id
         of_page == {b \in DOMAIN s.blocks : s.blocks[b].page_id = page_id}
         append == coalesce_max({s.blocks[b].sort_order : b \in of_page}) + 1
         after_block == after_id # NULL /\ after_id \in DOMAIN s.blocks
         sort_order == IF after_block THEN s.blocks[after_id].sort_order + 1 ELSE append
         s1 == IF after_block THEN shift_blocks(s, page_id, sort_order) ELSE s
         s2 == insert_block(s1, block_id, block_row(page_id, content, properties, sort_order))
         s3 == stamp(s2, "pages", page_id)
     IN Finish(s3, "create_block", block_id,
               [page_id |-> page_id, after_id |-> after_id])

\* A block update that also takes the owning page from the body.
BlockFieldsWithOwner == {"content", "sort_order", "properties", "page_id"}

\* The columns update_block copies from the request when present;
\* properties is written as json.dumps(data['properties']): the whole bag.
BlockFields == {"content", "sort_order", "properties"}

\* PUT /api/blocks/<block_id>
update_block(block_id, data) ==
  IF block_id \notin DOMAIN blocks
    THEN NotFound("update_block", block_id, data)
    ELSE LET s == Store
             old == s.blocks[block_id]
             updates == DOMAIN data \cap BlockFields
             new == [f \in DOMAIN old |-> IF f \in updates THEN data[f] ELSE old[f]]
             s1 == IF updates # {}
                     THEN stamp([s EXCEPT !.blocks[block_id] = new], "pages", old.page_id)
                     ELSE s
         IN Finish(s1, "update_block", block_id, data)

\* DELETE /api/blocks/<block_id>
delete_block(block_id) ==
  LET s == Store
      s1 == IF block_id \in DOMAIN s.blocks
              THEN stamp([s EXCEPT !.blocks =
                            [b \in DOMAIN s.blocks \ {block_id} |-> s.blocks[b]]],
                         "pages", s.blocks[block_id].page_id)
              ELSE s
  IN Finish(s1, "delete_block", block_id, <<>>)

\* A block reorder whose UPDATE names the block by id alone.
reorder_blocks_unscoped(page_id, order) ==
  LET s == Store
      s1 == [s EXCEPT !.blocks = reorder_rows(s.blocks, order, 0, NULL)]
  IN Finish(stamp(s1, "pages", page_id), "reorder_blocks", page_id, order)

\* PUT /api/pages/<page_id>/blocks/reorder
reorder_blocks(page_id, order) ==
  LET s == Store
      s1 == [s EXCEPT !.blocks = reorder_rows(s.blocks, order, 0, page_id)]
  IN Finish(stamp(s1, "pages", page_id), "reorder_blocks", page_id, order)

\* -------------------------------------------------------------- databases
\* dict.get(key, default) on a request body.
Get(data, key, default) == IF key \in DOMAIN data THEN data[key] ELSE default

\* One property definition of a properties_schema.  Its id is a gen_id();
\* within one schema the ids differ, which is all that is read of them.
\* options are the option names (their ids and colours are never read).
prop_def(id, name, type, options) ==
  [id |-> id, name |-> name, type |-> type, options |-> options]

\* A projects preset whose Status has lost an option.
projects_schema_three ==
  << prop_def("g1", "Status", "select", <<"Not Started", "In Progress", "Done">>),
     prop_def("g2", "Priority", "select", <<"Low", "Medium", "High", "Urgent">>) >>

\* create_database's preset for workspace 'projects'.
projects_schema ==
  << prop_def("g1", "Status", "select", <<"Not Started", "In Progress", "Done", "Blocked">>),
     prop_def("g2", "Priority", "select", <<"Low", "Medium", "High", "Urgent">>),
     prop_def("g3", "Due Date", "date", <<>>),
     prop_def("g4", "Assignee", "text", <<>>),
     prop_def("g5", "Tags", "multi_select", <<"Bug", "Feature", "Improvement">>) >>

\* create_database's preset for workspace 'wiki'.
wiki_schema ==
  << prop_def("g1", "Status", "select", <<"Draft", "In Review", "Published">>),
     prop_def("g2", "Category", "select", <<"General", "Technical", "Process", "Reference">>),
     prop_def("g3", "Owner", "text", <<>>),
     prop_def("g4", "Last Verified", "date", <<>>),
     prop_def("g5", "Tags", "multi_select", <<>>) >>

\* A databases row (title, icon, description and timestamps left out).
database_row(workspace, schema, default_view) ==
  [workspace |-> workspace, properties_schema |-> schema, default_view |-> default_view]

\* A db_items row (icon and timestamps left out).
item_row(database_id, title, properties, page_id, sort_order) ==
  [database_id |-> database_id, title |-> title, properties |-> properties,
   page_id |-> page_id, sort_order |-> sort_order]

\* A db_views row (name left out).
view_row(database_id, type, config, sort_order) ==
  [database_id |-> database_id, type |-> type, config |-> config,
   sort_order |-> sort_order]

\* INSERT INTO databases: PRIMARY KEY(id).
insert_database(s, id, row) ==
  IF s.err THEN s
  ELSE IF id \in DOMAIN s.databases THEN Raise(s)
  ELSE [s EXCEPT !.databases = (id :> row) @@ s.databases]

\* INSERT INTO db_items: PRIMARY KEY(id); FOREIGN KEY(database_id) REFERENCES
\* databases; FOREIGN KEY(page_id) REFERENCES pages.
insert_item(s, id, row) ==
  IF s.err THEN s
  ELSE IF \/ id \in DOMAIN s.db_items
          \/ row.database_id \notin DOMAIN s.databases
          \/ (row.page_id # NULL /\ row.page_id \notin DOMAIN s.pages)
    THEN Raise(s)
  ELSE [s EXCEPT !.db_items = (id :> row) @@ s.db_items]

\* INSERT INTO db_views: PRIMARY KEY(id); FOREIGN KEY(database_id).
insert_view(s, id, row) ==
  IF s.err THEN s
  ELSE IF id \in DOMAIN s.db_views \/ row.database_id \notin DOMAIN s.databases
    THEN Raise(s)
  ELSE [s EXCEPT !.db_views = (id :> row) @@ s.db_views]

\* POST /api/databases.  data is the request body.
create_database(data) ==
  /\ "id" \notin DOMAIN data => DbIds \ DOMAIN databases # {}
  /\ ViewIds \ DOMAIN db_views # {}
  /\ LET s == Store
         db_id == Get(data, "id", gen_id(DOMAIN databases, DbIds))
         workspace == Get(data, "workspace", "projects")
         default_schema ==
           IF workspace = "projects" THEN projects_schema
           ELSE IF workspace = "wiki" THEN wiki_schema
           ELSE Get(data, "properties_schema", <<>>)
         default_view == IF workspace = "projects" THEN "board" ELSE "table"
         schema == Get(data, "properties_schema", default_schema)
         s1 == insert_database(s, db_id, database_row(workspace, schema, default_view))
         view_id == gen_id(DOMAIN db_views, ViewIds)
         view_type == Get(data, "default_view", default_view)
         has_group == Len(schema) > 0 /\ schema[1].type = "select"
         view_config == IF view_type = "board" /\ has_group
                          THEN [group_by |-> schema[1].id]
                          ELSE EmptyBag
         s2 == insert_view(s1, view_id, view_row(db_id, view_type, view_config, 0))
     IN Finish(s2, "create_database", db_id, data)

\* PUT /api/databases/<db_id>.  No row is looked up before the UPDATE;
\* with no such row the handler subscripts None after the commit, which
\* had nothing to write.
update_database(db_id, data) ==
  LET s == Store
      updates == DOMAIN data \cap {"default_view", "properties_schema"}
  IN IF db_id \notin DOMAIN s.databases
       THEN Finish(Raise(s), "update_database", db_id, data)
       ELSE Finish(IF updates = {} THEN s
                   ELSE stamp([s EXCEPT !.databases[db_id] =
                                 [f \in DOMAIN @ |-> IF f \in updates THEN data[f] ELSE @[f]]],
                              "databases", db_id),
                   "update_database", db_id, data)

\* A database delete that leaves the pages of its items alone.
keep_item_pages(s, page_ids) == s

\* DELETE /api/databases/<db_id>
RECURSIVE delete_item_pages(_, _)
delete_item_pages(s, page_ids) ==
  IF page_ids = {} THEN s
  ELSE LET p == CHOOSE x \in page_ids : \A y \in page_ids : x <= y
       IN delete_item_pages(delete_page_row(delete_blocks_of(s, p), p), page_ids \ {p})

delete_database(db_id) ==
  LET s == Store
      item_pages == {s.db_items[i].page_id : i \in
                       {x \in DOMAIN s.db_items : /\ s.db_items[x].database_id = db_id
                                                  /\ s.db_items[x].page_id # NULL}}
      s1 == delete_item_pages(s, item_pages)
      s2 == [s1 EXCEPT
               !.db_items = [i \in {x \in DOMAIN s1.db_items :
                                      s1.db_items[x].database_id # db_id} |-> s1.db_items[i]],
               !.db_views = [v \in {x \in DOMAIN s1.db_views :
                                      s1.db_views[x].database_id # db_id} |-> s1.db_views[v]],
               !.databases = [d \in DOMAIN s1.databases \ {db_id} |-> s1.databases[d]]]
  IN Finish(s2, "delete_database", db_id, <<>>)

\* ------------------------------------------------------------------ items
\* An item created without the link to its page.
insert_item_unlinked(s, db_id, item_id, page_id, block_id, title, properties) ==
  LET max_order == coalesce_max({s.db_items[i].sort_order : i \in
                     {x \in DOMAIN s.db_items : s.db_items[x].database_id = db_id}})
      s1 == insert_page(s, page_id, page_row(title, NULL, "_db_item", 0))
      s2 == insert_block(s1, block_id, block_row(page_id, "", EmptyBag, 0))
  IN insert_item(s2, item_id, item_row(db_id, title, properties, NULL, max_order + 1))

\* The statements create_db_item and the create_project_item tool share:
\* the backing page (workspace '_db_item', the column defaults otherwise),
\* its empty block, and the item row at max_order + 1.
insert_item_with_page(s, db_id, item_id, page_id, block_id, title, properties) ==
  LET max_order == coalesce_max({s.db_items[i].sort_order : i \in
                     {x \in DOMAIN s.db_items : s.db_items[x].database_id = db_id}})
      s1 == insert_page(s, page_id, page_row(title, NULL, "_db_item", 0))
      s2 == insert_block(s1, block_id, block_row(page_id, "", EmptyBag, 0))
  IN insert_item(s2, item_id, item_row(db_id, title, properties, page_id, max_order + 1))

\* POST /api/databases/<db_id>/items
create_db_item(db_id, data) ==
  /\ "id" \notin DOMAIN data => ItemIds \ DOMAIN db_items # {}
  /\ PageIds \ DOMAIN pages # {}
  /\ BlockIds \ DOMAIN blocks # {}
  /\ LET s == Store
         item_id == Get(data, "id", gen_id(DOMAIN db_items, ItemIds))
         page_id == gen_id(DOMAIN pages, PageIds)
         block_id == gen_id(DOMAIN blocks, BlockIds)
         s1 == insert_item_with_page(s, db_id, item_id, page_id, block_id,
                                     Get(data, "title", "Untitled"),
                                     Get(data, "properties", EmptyBag))
         s2 == stamp(s1, "databases", db_id)
     IN Finish(s2, "create_db_item", item_id, [db_id |-> db_id, data |-> data])

\* An update that forgets the keys the request does not name.
dict_replace(existing, new) == new

\* existing.update(data['properties']): dict.update.
dict_update(existing, new) ==
  [k \in DOMAIN existing \cup DOMAIN new |-> IF k \in DOMAIN new THEN new[k] ELSE existing[k]]

\* A title update that never reaches the pages table.
keep_page_title(s, page_id, title) == s

\* UPDATE pages SET title=? WHERE id=?
set_page_title(s, page_id, title) ==
  IF s.err \/ page_id \notin DOMAIN s.pages THEN s
  ELSE [s EXCEPT !.pages[page_id].title = title]

\* The db_items columns written by update_db_item for a request body.
item_update(old, data) ==
  [f \in DOMAIN old |->
     IF f \in {"title", "sort_order"} /\ f \in DOMAIN data THEN data[f]
     ELSE IF f = "properties" /\ f \in DOMAIN data
       THEN dict_update(old.properties, data.properties)
     ELSE old[f]]

\* PUT /api/databases/<db_id>/items/<item_id>
update_db_item(db_id, item_id, data) ==
  IF item_id \notin DOMAIN db_items \/ db_items[item_id].database_id # db_id
    THEN NotFound("update_db_item", item_id, [db_id |-> db_id, data |-> data])
    ELSE LET s == Store
             item == s.db_items[item_id]
             updates == DOMAIN data \cap {"title", "sort_order", "properties"}
             s1 == IF "title" \in DOMAIN data /\ item.page_id # NULL
                     THEN set_page_title(s, item.page_id, data.title)
                     ELSE s
             s2 == IF updates # {}
                     THEN stamp(stamp([s1 EXCEPT !.db_items[item_id] = item_update(item, data)],
                                      "db_items", item_id),
                                "databases", db_id)
                     ELSE s1
         IN Finish(s2, "update_db_item", item_id, [db_id |-> db_id, data |-> data])

\* A delete that removes the item row alone.
delete_db_item_row_only(db_id, item_id) ==
  LET s == Store
      s2 == [s EXCEPT !.db_items = [i \in DOMAIN s.db_items \ {item_id} |-> s.db_items[i]]]
  IN Finish(stamp(s2, "databases", db_id), "delete_db_item",
            item_id, [db_id |-> db_id])

\* DELETE /api/databases/<db_id>/items/<item_id>
delete_db_item(db_id, item_id) ==
  LET s == Store
      has_page == item_id \in DOMAIN s.db_items /\ s.db_items[item_id].page_id # NULL
      s1 == IF has_page
              THEN delete_page_row(delete_blocks_of(s, s.db_items[item_id].page_id),
                                   s.db_items[item_id].page_id)
              ELSE s
      s2 == [s1 EXCEPT !.db_items = [i \in DOMAIN s1.db_items \ {item_id} |-> s1.db_items[i]]]
  IN Finish(stamp(s2, "databases", db_id), "delete_db_item",
            item_id, [db_id |-> db_id])

\* PUT /api/databases/<db_id>/items/reorder
reorder_db_items(db_id, order) ==
  LET s == Store
      s1 == [s EXCEPT !.db_items = reorder_rows(s.db_items, order, 0, NULL)]
  IN Finish(s1, "reorder_db_items", db_id, order)

\* execute_tool("create_project_item")
tool_create_project_item(db_id, title, properties) ==
  /\ ItemIds \ DOMAIN db_items # {}
  /\ PageIds \ DOMAIN pages # {}
  /\ BlockIds \ DOMAIN blocks # {}
  /\ LET s == Store
         item_id == gen_id(DOMAIN db_items, ItemIds)
         page_id == gen_id(DOMAIN pages, PageIds)
         block_id == gen_id(DOMAIN blocks, BlockIds)
         s1 == insert_item_with_page(s, db_id, item_id, page_id, block_id, title, properties)
     IN Finish(s1, "tool_create_project_item", item_id, [db_id |-> db_id])

\* execute_tool("update_project_item"): UPDATE db_items ... WHERE id=? for
\* the title and for the merged properties; no other table is written.
tool_update_project_item(db_id, item_id, data) ==
  LET s == Store
      s1 == IF item_id \in DOMAIN s.db_items
              THEN stamp([s EXCEPT !.db_items[item_id] =
                            item_update(s.db_items[item_id],
                                        [f \in DOMAIN data \cap {"title", "properties"} |-> data[f]])],
                         "db_items", item_id)
              ELSE s
  IN Finish(IF DOMAIN data \cap {"title", "properties"} = {} THEN s ELSE s1,
            "tool_update_project_item", item_id, [db_id |-> db_id, data |-> data])

\* ------------------------------------------------------------------ views
\* POST /api/databases/<db_id>/views
create_db_view(db_id, data) ==
  /\ ViewIds \ DOMAIN db_views # {}
  /\ LET s == Store
         view_id == gen_id(DOMAIN db_views, ViewIds)
         max_order == coalesce_max({s.db_views[v].sort_order : v \in
                        {x \in DOMAIN s.db_views : s.db_views[x].database_id = db_id}})
         s1 == insert_view(s, view_id,
                 view_row(db_id, Get(data, "type", "table"),
                          Get(data, "config", EmptyBag), max_order + 1))
     IN Finish(s1, "create_db_view", view_id, [db_id |-> db_id, data |-> data])

\* A view update that merges config the way item properties are merged.
view_update_merging(old, data) ==
  [f \in DOMAIN old |->
     IF f \in {"type", "sort_order"} /\ f \in DOMAIN data THEN data[f]
     ELSE IF f = "config" /\ f \in DOMAIN data
       THEN [k \in DOMAIN old.config \cup DOMAIN data.config |->
               IF k \in DOMAIN data.config THEN data.config[k] ELSE old.config[k]]
     ELSE old[f]]

\* The db_views columns written by update_db_view for a request body;
\* config is written as json.dumps(data['config']): the whole bag.
view_update(old, data) ==
  [f \in DOMAIN old |->
     IF f \in {"type", "sort_order", "config"} /\ f \in DOMAIN data THEN data[f]
     ELSE old[f]]

\* PUT /api/databases/<db_id>/views/<view_id>.  The UPDATE names the view
\* by id alone.  With no such row the handler subscripts None after the
\* commit, which had nothing to write.
update_db_view(db_id, view_id, data) ==
  LET s == Store
  IN IF view_id \notin DOMAIN s.db_views
       THEN Finish(Raise(s), "update_db_view", view_id, data)
       ELSE Finish([s EXCEPT !.db_views[view_id] = view_update(@, data)],
                   "update_db_view", view_id, data)

\* ------------------------------------------------------------------ reads
\* The results a SELECT ... ORDER BY can return for the rows ids, key[r]
\* being the ORDER BY columns of row r, ascending: every arrangement of the
\* rows in which no row comes before one whose key is smaller.  Rows of
\* equal key come in either order (the timestamps that break such ties are
\* not modelled).
Listings(ids, key) ==
  LET ahead(a, b) == \/ key[a][1] < key[b][1]
                     \/ key[a][1] = key[b][1] /\ key[a][2] < key[b][2]
  IN {o \in [1..Cardinality(ids) -> ids] :
        /\ \A i, j \in DOMAIN o : i # j => o[i] # o[j]
        /\ \A i, j \in DOMAIN o : i < j => ~ahead(o[j], o[i])}

\* GET /api/pages?workspace=...: ORDER BY is_favorite DESC, sort_order ASC.
\* workspace "" is a request without the parameter.
list_pages(tbl, workspace) ==
  Listings({p \in DOMAIN tbl : workspace = "" \/ tbl[p].workspace = workspace},
           [p \in DOMAIN tbl |-> <<IF tbl[p].is_favorite THEN 0 ELSE 1, tbl[p].sort_order>>])

\* GET /api/pages/<page_id>: 404 without the row, else the page with its
\* blocks and children; no statement writes.
get_page(page_id) ==
  IF page_id \notin DOMAIN pages
    THEN NotFound("get_page", page_id, <<>>)
    ELSE Finish(Store, "get_page", page_id, <<>>)

\* GET /api/databases/<db_id>: 404 without the row, else the database with
\* its items and views; no statement writes.
get_database(db_id) ==
  IF db_id \notin DOMAIN databases
    THEN NotFound("get_database", db_id, <<>>)
    ELSE Finish(Store, "get_database", db_id, <<>>)

\* GET /api/pages/<page_id>/blocks: ORDER BY sort_order.
get_blocks(tbl, page_id) ==
  Listings({b \in DOMAIN tbl : tbl[b].page_id = page_id},
           [b \in DOMAIN tbl |-> <<0, tbl[b].sort_order>>])

\* GET /api/databases/<db_id>: its items, ORDER BY sort_order.
get_database_items(tbl, db_id) ==
  Listings({i \in DOMAIN tbl : tbl[i].database_id = db_id},
           [i \in DOMAIN tbl |-> <<0, tbl[i].sort_order>>])

\* The characters of the titles and contents the requests below carry, as
\* LIKE compares them (it folds the case of ASCII letters).
Text ==
  ("" :> <<>>) @@ ("A" :> <<"a">>) @@ ("B" :> <<"b">>) @@ ("AB" :> <<"a", "b">>)
  @@ ("x" :> <<"x">>) @@ ("xA" :> <<"x", "a">>)
  @@ ("Untitled" :> <<"u", "n", "t", "i", "t", "l", "e", "d">>)

\* column LIKE '%q%': q occurs in the column's text.
Like(text, q) ==
  \E i \in 0..(Len(Text[text]) - Len(q)) : SubSeq(Text[text], i + 1, i + Len(q)) = q

\* One entry of the result list of search.
search_result(type, page_id, item_id) ==
  [type |-> type, page_id |-> page_id, item_id |-> item_id]

\* A search that lists every matching block.
RECURSIVE block_results_all(_, _, _)
block_results_all(rows, k, seen) ==
  IF k > Len(rows) THEN <<>>
  ELSE <<search_result("block", blocks[rows[k]].page_id, NULL)>>
         \o block_results_all(rows, k + 1, seen)

\* for b in blocks: if b['page_id'] not in seen: seen.add(...); results.append(...)
RECURSIVE block_results(_, _, _)
block_results(rows, k, seen) ==
  IF k > Len(rows) THEN <<>>
  ELSE LET page_id == blocks[rows[k]].page_id
       IN IF page_id \in seen
            THEN block_results(rows, k + 1, seen)
            ELSE <<search_result("block", page_id, NULL)>>
                   \o block_results(rows, k + 1, seen \cup {page_id})

\* The rows ids in every order a SELECT without ORDER BY may return them.
AnyOrder(ids) == Listings(ids, [r \in ids |-> <<0, 0>>])

\* GET /api/search?q=...: the result lists search can return for the
\* stripped query q (a list of characters): the pages whose title matches,
\* one entry for each further page that has a matching block, the items
\* whose title matches.  Pages of workspace '_db_item' are left out of the
\* first two.  (The LIMITs of 20, 20 and 10 rows exceed the tables here.)
search(q) ==
  IF q = <<>> THEN {<<>>}
  ELSE LET page_rows == {p \in DOMAIN pages :
                           Like(pages[p].title, q) /\ pages[p].workspace # "_db_item"}
           block_rows == {b \in DOMAIN blocks :
                            /\ Like(blocks[b].content, q)
                            /\ pages[blocks[b].page_id].workspace # "_db_item"}
           item_rows == {i \in DOMAIN db_items : Like(db_items[i].title, q)}
       IN {[k \in 1..Len(po) |-> search_result("page", po[k], NULL)]
             \o block_results(bo, 1, page_rows)
             \o [k \in 1..Len(io) |-> search_result("db_item", NULL, io[k])] :
           po \in AnyOrder(page_rows), bo \in AnyOrder(block_rows),
           io \in AnyOrder(item_rows)}

\* ------------------------------------------------------------ connections
\* A handler seen one statement at a time.  get_db opens a connection of its
\* own for every request (journal_mode=WAL, sqlite3's default deferred
\* transactions): the first INSERT, UPDATE or DELETE of the `with` block
\* begins a transaction and takes the database's write lock, the statements
\* write the connection's own image of the tables, and conn.commit()
\* publishes the image and frees the lock.

\* The committed tables.
Tables ==
  [pages |-> pages, blocks |-> blocks, databases |-> databases,
   db_items |-> db_items, db_views |-> db_views]

\* One conn.execute of a writing handler.
stmt(k, table, id, arg) == [k |-> k, table |-> table, id |-> id, arg |-> arg]

\* A connection with no request.
Idle ==
  [pc |-> "idle", op |-> "", id |-> NULL, args |-> <<>>, stmts |-> <<>>, n |-> 0,
   view |-> [pages |-> EmptyTable, blocks |-> EmptyTable, databases |-> EmptyTable,
             db_items |-> EmptyTable, db_views |-> EmptyTable,
             err |-> FALSE, stamped |-> {}],
   base |-> [pages |-> EmptyTable, blocks |-> EmptyTable, databases |-> EmptyTable,
             db_items |-> EmptyTable, db_views |-> EmptyTable]]

\* conn.execute(st) on the image s.
execute(s, st) ==
  IF s.err THEN s
  ELSE CASE st.k = "set_order" ->
              IF st.id \in DOMAIN s[st.table]
                 /\ (st.arg.owner = NULL \/ s[st.table][st.id].page_id = st.arg.owner)
                THEN [s EXCEPT ![st.table][st.id].sort_order = st.arg.idx]
                ELSE s
         [] st.k = "stamp" -> stamp(s, st.table, st.id)
         [] st.k = "delete_blocks" -> delete_blocks_of(s, st.id)
         [] st.k = "delete_page" -> delete_page_row(s, st.id)
         [] st.k = "delete_items" ->
              [s EXCEPT !.db_items = [i \in {x \in DOMAIN s.db_items :
                                               s.db_items[x].database_id # st.id}
                                        |-> s.db_items[i]]]
         [] st.k = "delete_views" ->
              [s EXCEPT !.db_views = [v \in {x \in DOMAIN s.db_views :
                                               s.db_views[x].database_id # st.id}
                                        |-> s.db_views[v]]]
         [] st.k = "delete_database" ->
              [s EXCEPT
                 !.databases = [d \in DOMAIN s.databases \ {st.id} |-> s.databases[d]],
                 !.db_items = [i \in {x \in DOMAIN s.db_items :
                                        s.db_items[x].database_id # st.id}
                                 |-> s.db_items[i]],
                 !.db_views = [v \in {x \in DOMAIN s.db_views :
                                        s.db_views[x].database_id # st.id}
                                 |-> s.db_views[v]]]
         [] st.k = "insert_page" -> insert_page(s, st.id, st.arg)
         [] st.k = "insert_block" -> insert_block(s, st.id, st.arg)
         [] st.k = "insert_item" -> insert_item(s, st.id, st.arg)
         [] st.k = "raise" -> Raise(s)

\* The requests in flight.
Running == {c \in Conns : txn[c].pc = "run"}

\* The ids the requests in flight have generated for the rows they are
\* about to insert into table: the gen_id() of another request differs
\* from them as it differs from the ids of the rows.
Reserved(table) ==
  UNION {{txn[c].stmts[i].id : i \in {j \in 1..Len(txn[c].stmts) :
                                       /\ txn[c].stmts[j].table = table
                                       /\ txn[c].stmts[j].k \in {"insert_page", "insert_block",
                                                                 "insert_item"}}} :
           c \in Running}

\* reorder_pages: one UPDATE per position of the list.
reorder_pages_stmts(order) ==
  [i \in 1..Len(order) |->
     stmt("set_order", "pages", order[i], [idx |-> i - 1, owner |-> NULL])]

\* reorder_blocks: one UPDATE per position, then the page's updated_at.
reorder_blocks_stmts(page_id, order) ==
  [i \in 1..Len(order) |->
     stmt("set_order", "blocks", order[i], [idx |-> i - 1, owner |-> page_id])]
  \o <<stmt("stamp", "pages", page_id, NULL)>>

\* delete_page and delete_page_recursive: the children first (SELECT without
\* ORDER BY: in any order), then the page's blocks, then the page.  The
\* SELECTs read the tables as the request found them; a chain of children
\* deeper than the table ends in RecursionError.
RECURSIVE delete_page_stmts(_, _, _)
RECURSIVE delete_children_stmts(_, _, _)
delete_page_stmts(s, page_id, depth) ==
  IF depth > Cardinality(DOMAIN s.pages) THEN {<<stmt("raise", "", NULL, NULL)>>}
  ELSE {cs \o <<stmt("delete_blocks", "blocks", page_id, NULL),
                stmt("delete_page", "pages", page_id, NULL)>> :
          cs \in delete_children_stmts(s, children_of(s, page_id), depth + 1)}

delete_children_stmts(s, children, depth) ==
  IF children = {} THEN {<<>>}
  ELSE UNION {{a \o b : a \in delete_page_stmts(s, child, depth),
                        b \in delete_children_stmts(s, children \ {child}, depth)} :
                child \in children}

\* delete_database: per item page its blocks and its row (in any order of
\* the items), then the items, the views and the database.
RECURSIVE delete_item_pages_stmts(_)
delete_item_pages_stmts(page_ids) ==
  IF page_ids = {} THEN {<<>>}
  ELSE UNION {{<<stmt("delete_blocks", "blocks", p, NULL),
                 stmt("delete_page", "pages", p, NULL)>> \o rest :
                 rest \in delete_item_pages_stmts(page_ids \ {p})} : p \in page_ids}

delete_database_stmts(s, db_id) ==
  LET item_pages == {s.db_items[i].page_id : i \in
                       {x \in DOMAIN s.db_items : /\ s.db_items[x].database_id = db_id
                                                  /\ s.db_items[x].page_id # NULL}}
  IN {ps \o <<stmt("delete_items", "db_items", db_id, NULL),
               stmt("delete_views", "db_views", db_id, NULL),
               stmt("delete_database", "databases", db_id, NULL)>> :
        ps \in delete_item_pages_stmts(item_pages)}

\* create_db_item: the backing page, its empty block, the item row at
\* max_order + 1, the database's updated_at.
create_db_item_stmts(s, db_id, data) ==
  LET item_id == Get(data, "id", gen_id(DOMAIN s.db_items \cup Reserved("db_items"), ItemIds))
      page_id == gen_id(DOMAIN s.pages \cup Reserved("pages"), PageIds)
      block_id == gen_id(DOMAIN s.blocks \cup Reserved("blocks"), BlockIds)
      title == Get(data, "title", "Untitled")
      max_order == coalesce_max({s.db_items[i].sort_order : i \in
                     {x \in DOMAIN s.db_items : s.db_items[x].database_id = db_id}})
  IN <<stmt("insert_page", "pages", page_id, page_row(title, NULL, "_db_item", 0)),
       stmt("insert_block", "blocks", block_id, block_row(page_id, "", EmptyBag, 0)),
       stmt("insert_item", "db_items", item_id,
            item_row(db_id, title, Get(data, "properties", EmptyBag), page_id,
                     max_order + 1)),
       stmt("stamp", "databases", db_id, NULL)>>

\* create_page: max_order is read by a SELECT of its own, before the
\* INSERT that begins the transaction; then the page at max_order + 1 and
\* its empty block.
create_page_stmts(s, title, parent_id, workspace) ==
  LET page_id == gen_id(DOMAIN s.pages \cup Reserved("pages"), PageIds)
      block_id == gen_id(DOMAIN s.blocks \cup Reserved("blocks"), BlockIds)
      max_order ==
        IF parent_id # NULL
          THEN coalesce_max({s.pages[q].sort_order : q \in
                 {x \in DOMAIN s.pages : s.pages[x].parent_id = parent_id}})
          ELSE coalesce_max({s.pages[q].sort_order : q \in
                 {x \in DOMAIN s.pages : /\ s.pages[x].parent_id = NULL
                                         /\ s.pages[x].workspace = workspace}})
  IN <<stmt("insert_page", "pages", page_id,
            page_row(title, parent_id, workspace, max_order + 1)),
       stmt("insert_block", "blocks", block_id, block_row(page_id, "", EmptyBag, 0))>>

\* create_block without after_id: the SELECT of MAX(sort_order)+1, then
\* the block and the page's updated_at.
create_block_stmts(s, page_id, content) ==
  LET block_id == gen_id(DOMAIN s.blocks \cup Reserved("blocks"), BlockIds)
      of_page == {b \in DOMAIN s.blocks : s.blocks[b].page_id = page_id}
      append == coalesce_max({s.blocks[b].sort_order : b \in of_page}) + 1
  IN <<stmt("insert_block", "blocks", block_id,
            block_row(page_id, content, EmptyBag, append)),
       stmt("stamp", "pages", page_id, NULL)>>

\* A request reaches its handler: get_db() gives it connection c.
begin(c, op, id, args, stmts) ==
  /\ txn[c].pc = "idle"
  /\ nops + Cardinality(Running) < MaxOps
  /\ txn' = [txn EXCEPT ![c] = [Idle EXCEPT !.pc = "run", !.op = op, !.id = id,
                                            !.args = args, !.stmts = stmts,
                                            !.base = Tables]]
  /\ UNCHANGED <<pages, blocks, databases, db_items, db_views, last, nops, lock>>

\* A writer that ignores the write lock.
can_write_always(c) == TRUE

\* SQLite lets one connection write at a time: a statement that writes
\* runs when the write lock is free or the connection's own.
can_write(c) == lock \in {NULL, c}

\* The image connection c reads and writes: its own once it has written,
\* the committed tables before.
image(c) == IF txn[c].n > 0 THEN txn[c].view ELSE Store

\* A store that writes every statement through to the database file.
on_disk_at_once(s, committed) ==
  [pages |-> s.pages, blocks |-> s.blocks, databases |-> s.databases,
   db_items |-> s.db_items, db_views |-> s.db_views]

\* What a statement of an open transaction leaves in the database file,
\* for the other connections and for a restart: the committed tables.
on_disk(s, committed) == committed

\* The next conn.execute of connection c.
step(c) ==
  /\ txn[c].pc = "run"
  /\ txn[c].n < Len(txn[c].stmts)
  /\ ~image(c).err
  /\ can_write(c)
  /\ LET s == execute(image(c), txn[c].stmts[txn[c].n + 1])
         d == on_disk(s, Tables)
     IN /\ txn' = [txn EXCEPT ![c].view = s, ![c].n = @ + 1]
        /\ pages' = d.pages
        /\ blocks' = d.blocks
        /\ databases' = d.databases
        /\ db_items' = d.db_items
        /\ db_views' = d.db_views
  /\ lock' = c
  /\ UNCHANGED <<last, nops>>

\* conn.commit() and the response, or the rollback of `with conn:` and
\* HTTP 500 when a statement raised.
finish(c) ==
  /\ txn[c].pc = "run"
  /\ txn[c].n = Len(txn[c].stmts) \/ image(c).err
  /\ Commit(image(c), txn[c].op, txn[c].id, txn[c].args)
  /\ txn' = [txn EXCEPT ![c] = Idle]
  /\ lock' = IF lock = c THEN NULL ELSE lock

\* sqlite3.OperationalError (database is locked): the write lock stayed with
\* another connection for the whole timeout of sqlite3.connect.
busy(c) ==
  /\ txn[c].pc = "run"
  /\ txn[c].n < Len(txn[c].stmts)
  /\ ~can_write(c)
  /\ Commit(Raise(Store), txn[c].op, txn[c].id, txn[c].args)
  /\ txn' = [txn EXCEPT ![c] = Idle]
  /\ UNCHANGED lock

\* The handler of connection c ends between two statements: an exception
\* that `with conn:` answers by rollback, or the death of the process, after
\* which SQLite ignores what the WAL holds without a commit.
interrupt(c) ==
  /\ txn[c].pc = "run"
  /\ nops < MaxOps
  /\ nops' = nops + 1
  /\ last' = Outcome(txn[c].op, "interrupted", txn[c].id,
                     [args |-> txn[c].args, n |-> txn[c].n, stmts |-> txn[c].stmts,
                      view |-> image(c), base |-> txn[c].base], Store)
  /\ txn' = [txn EXCEPT ![c] = Idle]
  /\ lock' = IF lock = c THEN NULL ELSE lock
  /\ UNCHANGED <<pages, blocks, databases, db_items, db_views>>

Init ==
  /\ pages = EmptyTable
  /\ blocks = EmptyTable
  /\ databases = EmptyTable
  /\ db_items = EmptyTable
  /\ db_views = EmptyTable
  /\ last = [op |-> "init", res |-> "ok", id |-> NULL, args |-> <<>>, stamped |-> {},
             before |-> [pages |-> EmptyTable, blocks |-> EmptyTable,
                         databases |-> EmptyTable, db_items |-> EmptyTable,
                         db_views |-> EmptyTable]]
  /\ nops = 0
  /\ txn = [c \in Conns |-> Idle]
  /\ lock = NULL

\* ----------------------------------------------------------------- inputs
\* The request values the specifications below draw from.

\* Every non-empty list of distinct ids.
Orders3(ids) ==
  UNION {{o \in [1..n -> ids] : \A i, j \in 1..n : i # j => o[i] # o[j]} :
           n \in 1..Cardinality(ids)}

\* The lists of one or two distinct ids.
ShortLists(ids) ==
  {<<i>> : i \in ids} \cup {o \in {<<i, j>> : i \in ids, j \in ids} : o[1] # o[2]}

\* The ids a request may name in table tbl: those of its rows and one id
\* that names no row (the greatest free one).
Known(tbl, pool) ==
  DOMAIN tbl \cup {i \in pool \ DOMAIN tbl : \A j \in pool \ DOMAIN tbl : j <= i}

\* The page tree: creation under any parent, re-parenting (cycles
\* included), both deletes, and more blocks for a page.
NextTree ==
  \/ \E parent_id \in {NULL} \cup Known(pages, PageIds) :
       create_page(NULL, "A", parent_id, "docs")
  \/ \E p \in Known(pages, PageIds), q \in {NULL} \cup Known(pages, PageIds) :
       update_page(p, [parent_id |-> q])
  \/ \E p \in Known(pages, PageIds) : delete_page(p)
  \/ \E p \in Known(pages, PageIds) : tool_delete_page(p)
  \/ \E p \in Known(pages, PageIds) : create_block(p, NULL, "", EmptyBag, NULL)

SpecTree == Init /\ [][NextTree]_vars

\* The blocks of pages: appended, inserted after a block of any page,
\* given an explicit sort_order, deleted and reordered.
NextBlocks ==
  \/ create_page(NULL, "A", NULL, "docs")
  \/ \E p \in Known(pages, PageIds), after_id \in {NULL} \cup Known(blocks, BlockIds) :
       create_block(p, NULL, "", EmptyBag, after_id)
  \/ \E b \in Known(blocks, BlockIds), k \in Orders : update_block(b, [sort_order |-> k])
  \/ \E b \in Known(blocks, BlockIds) : delete_block(b)
  \/ \E p \in Known(pages, PageIds), order \in ShortLists(Known(blocks, BlockIds)) :
       reorder_blocks(p, order)

SpecBlocks == Init /\ [][NextBlocks]_vars

\* The slices with many requests to choose from stop one request short of
\* MaxOps.
ShortRun == nops < MaxOps - 1

\* Sibling order: pages of two workspaces and under parents, favourites,
\* blocks, a database with its items, and every reorder.
NextOrder ==
  \/ ShortRun /\ \E parent_id \in {NULL} \cup DOMAIN pages, workspace \in {"docs", "wiki"} :
       create_page(NULL, "A", parent_id, workspace)
  \/ ShortRun /\ \E p \in DOMAIN pages : update_page(p, [is_favorite |-> TRUE])
  \/ ShortRun /\ \E order \in Orders3(Known(pages, PageIds)) : reorder_pages(order)
  \/ ShortRun /\ \E p \in DOMAIN pages : create_block(p, NULL, "", EmptyBag, NULL)
  \/ ShortRun /\ \E p \in DOMAIN pages, order \in ShortLists(Known(blocks, BlockIds)) :
       reorder_blocks(p, order)
  \/ ShortRun /\ create_database([workspace |-> "projects"])
  \/ ShortRun /\ \E d \in DOMAIN databases : create_db_item(d, [title |-> "A"])
  \/ ShortRun /\ \E d \in Known(databases, DbIds), order \in ShortLists(Known(db_items, ItemIds)) :
       reorder_db_items(d, order)

SpecOrder == Init /\ [][NextOrder]_vars

\* Every way to create a row: the handlers and the tools.
NextCreate ==
  \/ \E parent_id \in {NULL} \cup DOMAIN pages :
       create_page(NULL, "A", parent_id, "docs")
  \/ \E contents \in {<<"">>, <<"x", "">>} : tool_create_page("A", contents)
  \/ \E p \in DOMAIN pages, after_id \in {NULL} \cup Known(blocks, BlockIds) :
       create_block(p, NULL, "", EmptyBag, after_id)
  \/ create_database([workspace |-> "projects"])
  \/ \E d \in Known(databases, DbIds) : create_db_item(d, [title |-> "A"])
  \/ \E d \in Known(databases, DbIds) : tool_create_project_item(d, "A", EmptyBag)
  \/ \E d \in Known(databases, DbIds) : create_db_view(d, [type |-> "table"])

SpecCreate == Init /\ [][NextCreate]_vars

\* Items and their backing pages: created, retitled, given properties,
\* deleted, with pages created under and deleted from under them.
NextItems ==
  \/ create_database([workspace |-> "projects"])
  \/ \E d \in Known(databases, DbIds),
            data \in {[title |-> "A"], [id |-> 1, title |-> "A"],
                      [title |-> "A", properties |-> [p1 |-> "v1", p2 |-> "v3"]]} :
       create_db_item(d, data)
  \/ \E d \in DOMAIN databases : tool_create_project_item(d, "A", [p1 |-> "v1"])
  \/ \E d \in Known(databases, DbIds), i \in Known(db_items, ItemIds),
            data \in {[title |-> "B"], [properties |-> [p1 |-> "v2"]],
                      [title |-> "B", properties |-> [p3 |-> "v1"], sort_order |-> 0]} :
       update_db_item(d, i, data)
  \/ \E d \in DOMAIN databases, i \in DOMAIN db_items :
       tool_update_project_item(d, i, [title |-> "B"])
  \/ \E d \in Known(databases, DbIds), i \in Known(db_items, ItemIds) :
       delete_db_item(d, i)
  \/ \E parent_id \in DOMAIN pages : create_page(NULL, "A", parent_id, "docs")
  \/ \E p \in DOMAIN pages : delete_page(p)

SpecItems == Init /\ [][NextItems]_vars

\* Databases with their presets and default views, views and their
\* config, blocks and their properties.
NextViews ==
  \/ \E data \in {[workspace |-> "projects"],
                   [workspace |-> "projects", default_view |-> "table"],
                   [workspace |-> "projects", default_view |-> "board"],
                   [workspace |-> "projects",
                    properties_schema |-> <<prop_def("c1", "Name", "text", <<>>)>>],
                   [workspace |-> "wiki"],
                   [workspace |-> "crm"]} :
       create_database(data)
  \/ \E d \in Known(databases, DbIds),
        data \in {[type |-> "board", config |-> [group_by |-> "g2"]],
                  [config |-> [p1 |-> "v1", p2 |-> "v3"]]} :
       create_db_view(d, data)
  \/ \E d \in DOMAIN databases, v \in Known(db_views, ViewIds),
        data \in {[config |-> C] : C \in {EmptyBag, [p1 |-> "v2"]}} \cup {[type |-> "list"]} :
       update_db_view(d, v, data)
  \/ \E d \in DOMAIN databases : delete_database(d)
  \/ create_page(NULL, "A", NULL, "docs")
  \/ \E b \in Known(blocks, BlockIds),
        data \in {[properties |-> C] : C \in {EmptyBag, [p1 |-> "v2"], [p1 |-> "v1", p2 |-> "v3"]}}
                 \cup {[content |-> "x"]} :
       update_block(b, data)

SpecViews == Init /\ [][NextViews]_vars

\* Databases with their items, views and backing pages, pages under and
\* blocks in the backing pages, and the delete of a database.
NextDatabases ==
  \/ create_database([workspace |-> "projects"])
  \/ \E d \in DOMAIN databases : create_db_item(d, [title |-> "A"])
  \/ \E d \in DOMAIN databases : create_db_view(d, [type |-> "table"])
  \/ \E p \in DOMAIN pages : create_block(p, NULL, "x", EmptyBag, NULL)
  \/ \E parent_id \in {NULL} \cup DOMAIN pages : create_page(NULL, "A", parent_id, "docs")
  \/ \E d \in Known(databases, DbIds) : delete_database(d)

SpecDatabases == Init /\ [][NextDatabases]_vars

\* The requests that name one row by its id, with ids that have a row and
\* ids that have none.
NextLookup ==
  \/ ShortRun /\ create_page(NULL, "A", NULL, "docs")
  \/ ShortRun /\ create_database([workspace |-> "projects"])
  \/ ShortRun /\ \E d \in DOMAIN databases : create_db_item(d, [title |-> "A"])
  \/ ShortRun /\ \E p \in Known(pages, PageIds) : get_page(p)
  \/ ShortRun /\ \E p \in Known(pages, PageIds) : update_page(p, [title |-> "B"])
  \/ ShortRun /\ \E b \in Known(blocks, BlockIds) : update_block(b, [content |-> "x"])
  \/ ShortRun /\ \E d \in Known(databases, DbIds) : get_database(d)
  \/ ShortRun /\ \E d \in Known(databases, DbIds) : update_database(d, [default_view |-> "table"])
  \/ ShortRun /\ \E d \in Known(databases, DbIds), i \in Known(db_items, ItemIds) :
       update_db_item(d, i, [title |-> "B"])
  \/ ShortRun /\ \E d \in Known(databases, DbIds), v \in Known(db_views, ViewIds) :
       update_db_view(d, v, [type |-> "list"])

SpecLookup == Init /\ [][NextLookup]_vars

\* What search reads: titles, contents and workspaces of pages and
\* backing pages, written by every handler that can write them.
NextSearch ==
  \/ ShortRun /\ \E title \in {"A", "AB"} : create_page(NULL, title, NULL, "docs")
  \/ ShortRun /\ create_database([workspace |-> "projects"])
  \/ ShortRun /\ \E d \in DOMAIN databases : create_db_item(d, [title |-> "A"])
  \/ ShortRun /\ \E p \in DOMAIN pages,
            data \in {[workspace |-> "docs"], [workspace |-> "_db_item"], [title |-> "B"]} :
       update_page(p, data)
  \/ ShortRun /\ \E p \in DOMAIN pages : create_block(p, NULL, "xA", EmptyBag, NULL)
  \/ ShortRun /\ \E b \in DOMAIN blocks, content \in {"A", "x"} :
       update_block(b, [content |-> content])

SpecSearch == Init /\ [][NextSearch]_vars

\* The stripped queries put to search.
Queries == {<<"a">>, <<"b">>, <<"x">>, <<"a", "b">>, <<"x", "a">>}

\* Reorders of the root pages and of a page's blocks on two connections
\* at once; the rows they reorder are created while no request is running.
NextReorder ==
  \/ ShortRun /\ Running = {} /\ create_page(NULL, "A", NULL, "docs")
  \/ ShortRun /\ Running = {} /\ \E p \in DOMAIN pages :
                                    create_block(p, NULL, "x", EmptyBag, NULL)
  \/ ShortRun /\ \E c \in Conns, order \in ShortLists(DOMAIN pages) :
       begin(c, "reorder_pages", NULL, order, reorder_pages_stmts(order))
  \/ ShortRun /\ \E c \in Conns, p \in DOMAIN pages :
       \E order \in ShortLists({b \in DOMAIN blocks : blocks[b].page_id = p}) :
         begin(c, "reorder_blocks", p, order, reorder_blocks_stmts(p, order))
  \/ \E c \in Conns : step(c)
  \/ \E c \in Conns : finish(c)
  \/ \E c \in Conns : busy(c)

SpecReorder == Init /\ [][NextReorder]_vars

\* The handlers of several statements, one request at a time, ended at any
\* statement: the page delete, the database delete and the item create.
NextCrash ==
  \/ Running = {} /\ \E parent_id \in {NULL} \cup DOMAIN pages :
                        create_page(NULL, "A", parent_id, "docs")
  \/ Running = {} /\ \E p \in DOMAIN pages : create_block(p, NULL, "x", EmptyBag, NULL)
  \/ Running = {} /\ create_database([workspace |-> "projects"])
  \/ Running = {} /\ \E c \in Conns, p \in Known(pages, PageIds) :
                        \E stmts \in delete_page_stmts(Store, p, 0) :
                          begin(c, "delete_page", p, <<>>, stmts)
  \/ Running = {} /\ \E c \in Conns, d \in Known(databases, DbIds) :
                        \E stmts \in delete_database_stmts(Store, d) :
                          begin(c, "delete_database", d, <<>>, stmts)
  \/ /\ Running = {}
     /\ ItemIds \ DOMAIN db_items # {}
     /\ PageIds \ DOMAIN pages # {}
     /\ BlockIds \ DOMAIN blocks # {}
     /\ \E c \in Conns, d \in Known(databases, DbIds) :
          begin(c, "create_db_item", gen_id(DOMAIN db_items, ItemIds),
                [db_id |-> d, data |-> [title |-> "A"]],
                create_db_item_stmts(Store, d, [title |-> "A"]))
  \/ \E c \in Conns : step(c)
  \/ \E c \in Conns : finish(c)
  \/ \E c \in Conns : interrupt(c)

SpecCrash == Init /\ [][NextCrash]_vars

\* The chat tools next to the handlers they stand for.
NextTools ==
  \/ ShortRun /\ \E parent_id \in {NULL} \cup DOMAIN pages :
                    create_page(NULL, "A", parent_id, "docs")
  \/ ShortRun /\ create_database([workspace |-> "projects"])
  \/ ShortRun /\ \E d \in DOMAIN databases : create_db_item(d, [title |-> "A"])
  \/ ShortRun /\ \E p \in Known(pages, PageIds) : delete_page(p)
  \/ ShortRun /\ \E p \in Known(pages, PageIds) : tool_delete_page(p)
  \/ ShortRun /\ \E d \in DOMAIN databases, i \in Known(db_items, ItemIds),
                     data \in {[title |-> "B"], [properties |-> [p1 |-> "v1"]]} :
                    update_db_item(d, i, data)
  \/ ShortRun /\ \E d \in DOMAIN databases, i \in Known(db_items, ItemIds),
                     data \in {[title |-> "B"], [properties |-> [p1 |-> "v1"]]} :
                    tool_update_project_item(d, i, data)

SpecTools == Init /\ [][NextTools]_vars

\* The five updates by id, with bodies that also name the columns no
\* update writes (page_id, database_id).
NextUpdate ==
  \/ ShortRun /\ \E parent_id \in {NULL} \cup DOMAIN pages :
                    create_page(NULL, "A", parent_id, "docs")
  \/ ShortRun /\ create_database([workspace |-> "projects"])
  \/ ShortRun /\ \E d \in DOMAIN databases : create_db_item(d, [title |-> "A"])
  \/ ShortRun /\ \E p \in DOMAIN pages :
                    \E data \in {[title |-> "B"], [sort_order |-> 0, is_favorite |-> TRUE]}
                                \cup {[parent_id |-> q] : q \in DOMAIN pages} :
                      update_page(p, data)
  \/ ShortRun /\ \E b \in DOMAIN blocks :
                    \E data \in {[content |-> "x"]}
                                \cup {[page_id |-> q, sort_order |-> 2] : q \in DOMAIN pages} :
                      update_block(b, data)
  \/ ShortRun /\ \E d \in DOMAIN databases, i \in DOMAIN db_items :
                    \E data \in {[title |-> "B"],
                                 [database_id |-> MaxDbs, page_id |-> NULL, sort_order |-> 0]} :
                      update_db_item(d, i, data)
  \/ ShortRun /\ \E d \in DOMAIN databases, v \in DOMAIN db_views :
                    \E data \in {[type |-> "list"],
                                 [database_id |-> MaxDbs, config |-> [p1 |-> "v1"]]} :
                      update_db_view(d, v, data)
  \/ ShortRun /\ \E d \in DOMAIN databases :
                    \E data \in {[default_view |-> "table"], [workspace |-> "wiki"]} :
                      update_database(d, data)

SpecUpdate == Init /\ [][NextUpdate]_vars

\* The deletes of pages, blocks, items and databases over pages that back
\* items and pages that do not.
NextCascade ==
  \/ ShortRun /\ \E parent_id \in {NULL} \cup DOMAIN pages :
                    create_page(NULL, "A", parent_id, "docs")
  \/ ShortRun /\ create_database([workspace |-> "projects"])
  \/ ShortRun /\ \E d \in DOMAIN databases : create_db_item(d, [title |-> "A"])
  \/ ShortRun /\ \E d \in DOMAIN databases : tool_create_project_item(d, "A", EmptyBag)
  \/ ShortRun /\ \E p \in Known(pages, PageIds) : delete_page(p)
  \/ ShortRun /\ \E p \in Known(pages, PageIds) : tool_delete_page(p)
  \/ ShortRun /\ \E b \in Known(blocks, BlockIds) : delete_block(b)
  \/ ShortRun /\ \E d \in DOMAIN databases, i \in Known(db_items, ItemIds) :
                    delete_db_item(d, i)
  \/ ShortRun /\ \E d \in Known(databases, DbIds) : delete_database(d)

SpecCascade == Init /\ [][NextCascade]_vars

\* Creates in one scope on two connections at once: each reads
\* MAX(sort_order) when it begins and inserts when it has the write lock.
NextRace ==
  \/ ShortRun /\ Running = {} /\ create_page(NULL, "A", NULL, "docs")
  \/ ShortRun /\ Running = {} /\ create_database([workspace |-> "projects"])
  \/ /\ ShortRun
     /\ PageIds \ (DOMAIN pages \cup Reserved("pages")) # {}
     /\ BlockIds \ (DOMAIN blocks \cup Reserved("blocks")) # {}
     /\ \E c \in Conns, parent_id \in {NULL} \cup DOMAIN pages :
          LET stmts == create_page_stmts(Store, "A", parent_id, "docs")
          IN begin(c, "create_page", stmts[1].id,
                   [title |-> "A", parent_id |-> parent_id, workspace |-> "docs"], stmts)
  \/ /\ ShortRun
     /\ BlockIds \ (DOMAIN blocks \cup Reserved("blocks")) # {}
     /\ \E c \in Conns, p \in DOMAIN pages :
          LET stmts == create_block_stmts(Store, p, "x")
          IN begin(c, "create_block", stmts[1].id, [page_id |-> p, after_id |-> NULL], stmts)
  \/ /\ ShortRun
     /\ ItemIds \ (DOMAIN db_items \cup Reserved("db_items")) # {}
     /\ PageIds \ (DOMAIN pages \cup Reserved("pages")) # {}
     /\ BlockIds \ (DOMAIN blocks \cup Reserved("blocks")) # {}
     /\ \E c \in Conns, d \in DOMAIN databases :
          LET stmts == create_db_item_stmts(Store, d, [title |-> "A"])
          IN begin(c, "create_db_item", stmts[3].id,
                   [db_id |-> d, data |-> [title |-> "A"]], stmts)
  \/ \E c \in Conns : step(c)
  \/ \E c \in Conns : finish(c)
  \/ \E c \in Conns : busy(c)

SpecRace == Init /\ [][NextRace]_vars

\* Block creates (appended, or after a block of any page) and block
\* deletes, on pages that start with their one empty block.
NextBlockSeq ==
  \/ create_page(NULL, "A", NULL, "docs")
  \/ \E p \in DOMAIN pages, after_id \in {NULL} \cup Known(blocks, BlockIds) :
       create_block(p, NULL, "x", EmptyBag, after_id)
  \/ \E b \in Known(blocks, BlockIds) : delete_block(b)

SpecBlockSeq == Init /\ [][NextBlockSeq]_vars

\* The item requests of two databases, each addressed through either
\* database.
NextItemScope ==
  \/ create_database([workspace |-> "projects"])
  \/ \E d \in DOMAIN databases : create_db_item(d, [title |-> "A"])
  \/ \E d \in DOMAIN databases, i \in Known(db_items, ItemIds) :
       update_db_item(d, i, [title |-> "B"])
  \/ \E d \in DOMAIN databases, i \in Known(db_items, ItemIds) :
       delete_db_item(d, i)
  \/ \E d \in DOMAIN databases, order \in ShortLists(Known(db_items, ItemIds)) :
       reorder_db_items(d, order)

SpecItemScope == Init /\ [][NextItemScope]_vars

\* Every handler run as a whole, on one store.
Next ==
  \/ NextTree \/ NextBlocks \/ NextOrder \/ NextCreate \/ NextItems \/ NextViews
  \/ NextDatabases \/ NextLookup \/ NextSearch \/ NextTools

Spec == Init /\ [][Next]_vars

\* ----------------------------------------------------------------- claims
\* The pages met from q by following parent_id, n steps at most.
RECURSIVE parent_chain(_, _, _)
parent_chain(tbl, q, n) ==
  IF n = 0 \/ q \notin DOMAIN tbl \/ tbl[q].parent_id = NULL THEN {}
  ELSE {tbl[q].parent_id} \cup parent_chain(tbl, tbl[q].parent_id, n - 1)

\* p and every transitive descendant of p in the pages table tbl.
Subtree(tbl, p) ==
  {p} \cup {q \in DOMAIN tbl : p \in parent_chain(tbl, q, Cardinality(DOMAIN tbl))}

\* C1: once delete(P) has returned, P, every transitive descendant of P
\* (by parent_id, in the state delete was called in) and every block whose
\* page_id is one of them are gone.
C1_DeleteCascade ==
  (last.op = "delete_page" /\ last.res = "ok") =>
    LET gone == Subtree(last.before.pages, last.id)
    IN /\ \A q \in gone : q \notin DOMAIN pages
       /\ \A b \in DOMAIN blocks : blocks[b].page_id \notin gone

\* C1 witness: delete has removed a page (Roadmap), its child (Q1) and a
\* page under that child, each with a block.
C1_Witness ==
  /\ last.op = "delete_page" /\ last.res = "ok"
  /\ \E q, r \in DOMAIN last.before.pages :
       /\ last.before.pages[q].parent_id = last.id
       /\ last.before.pages[r].parent_id = q
       /\ \A x \in {last.id, q, r} :
            /\ x \notin DOMAIN pages
            /\ \E b \in DOMAIN last.before.blocks : last.before.blocks[b].page_id = x

\* C3: a block created in page G with after_id = X, an existing block of
\* sort_order k, has sort_order k+1; the blocks of G that were at k+1 or
\* above are one higher, those at k or below are where they were, and G
\* has exactly one block more.
C3_InsertAfter ==
  (/\ last.op = "create_block" /\ last.res = "ok"
   /\ last.args.after_id \in DOMAIN last.before.blocks) =>
    LET old == last.before.blocks
        G == last.args.page_id
        k == old[last.args.after_id].sort_order
        of_G(tbl) == {b \in DOMAIN tbl : tbl[b].page_id = G}
    IN /\ blocks[last.id].page_id = G
       /\ blocks[last.id].sort_order = k + 1
       /\ \A b \in of_G(old) :
            /\ b \in DOMAIN blocks
            /\ blocks[b].sort_order =
                 IF old[b].sort_order >= k + 1 THEN old[b].sort_order + 1
                 ELSE old[b].sort_order
       /\ Cardinality(of_G(blocks)) = Cardinality(of_G(old)) + 1

\* C3 witness: an insert after a block of the same page that left that
\* block in place and moved a later block up.
C3_Witness ==
  /\ last.op = "create_block" /\ last.res = "ok"
  /\ last.args.after_id \in DOMAIN last.before.blocks
  /\ LET old == last.before.blocks
         X == last.args.after_id
     IN /\ old[X].page_id = last.args.page_id
        /\ blocks[X].sort_order = old[X].sort_order
        /\ \E b \in DOMAIN old :
             /\ old[b].page_id = last.args.page_id
             /\ old[b].sort_order > old[X].sort_order
             /\ blocks[b].sort_order = old[b].sort_order + 1

\* The sibling scope of page p: the pages with p's parent_id and, for a
\* root page, p's workspace.
page_scope(tbl, p) ==
  {q \in DOMAIN tbl :
     /\ tbl[q].parent_id = tbl[p].parent_id
     /\ (tbl[p].parent_id = NULL => tbl[q].workspace = tbl[p].workspace)}

Pos(o, x) == CHOOSE i \in DOMAIN o : o[i] = x
Once(o, x) == Cardinality({i \in DOMAIN o : o[i] = x}) = 1
Range(o) == {o[i] : i \in DOMAIN o}

\* The members of S that listing holds come in it in the order of L.
InOrderOf(L, S, listing) ==
  \A a, b \in S \cap Range(listing) :
    Pos(L, a) < Pos(L, b) => Pos(listing, a) < Pos(listing, b)

\* C4: after a reorder whose list L holds every member of a sibling scope
\* exactly once, each member's sort_order is its position in L counted from
\* 0, and every listing of the scope returns the members in the order of L
\* (pages: those of equal is_favorite).
C4_ReorderFullScope ==
  /\ (last.op = "reorder_pages" /\ last.res = "ok") =>
       \A p \in DOMAIN last.before.pages :
         LET S == page_scope(last.before.pages, p)
         IN (\A m \in S : Once(last.args, m)) =>
              /\ \A m \in S : pages[m].sort_order = Pos(last.args, m) - 1
              /\ \A workspace \in {"", pages[p].workspace} :
                   \A listing \in list_pages(pages, workspace) :
                     \A fav \in BOOLEAN :
                       InOrderOf(last.args, {m \in S : pages[m].is_favorite = fav}, listing)
  /\ (last.op = "reorder_blocks" /\ last.res = "ok") =>
       LET S == {b \in DOMAIN last.before.blocks : last.before.blocks[b].page_id = last.id}
       IN (S # {} /\ \A m \in S : Once(last.args, m)) =>
            /\ \A m \in S : blocks[m].sort_order = Pos(last.args, m) - 1
            /\ \A listing \in get_blocks(blocks, last.id) : InOrderOf(last.args, S, listing)
  /\ (last.op = "reorder_db_items" /\ last.res = "ok") =>
       \A d \in DOMAIN last.before.databases :
         LET S == {i \in DOMAIN last.before.db_items : last.before.db_items[i].database_id = d}
         IN (S # {} /\ \A m \in S : Once(last.args, m)) =>
              /\ \A m \in S : db_items[m].sort_order = Pos(last.args, m) - 1
              /\ \A listing \in get_database_items(db_items, d) :
                   InOrderOf(last.args, S, listing)

\* C4 witness: a reorder of a scope of two pages of equal is_favorite that
\* put the page that was listed second first.
C4_Witness ==
  /\ last.op = "reorder_pages" /\ last.res = "ok"
  /\ \E a, b \in DOMAIN last.before.pages :
       /\ a # b
       /\ page_scope(last.before.pages, a) = {a, b}
       /\ Range(last.args) = {a, b} /\ Len(last.args) = 2
       /\ pages[a].is_favorite = pages[b].is_favorite
       /\ last.before.pages[a].sort_order < last.before.pages[b].sort_order
       /\ pages[b].sort_order = 0 /\ pages[a].sort_order = 1
       /\ \A listing \in list_pages(pages, "") : Pos(listing, b) < Pos(listing, a)

\* C2: an update_db_item that carries a title T, on an item that has a
\* backing page, leaves T as the item's title and as the title of the
\* page, whatever else the request carries.
C2_TitleSync ==
  (/\ last.op = "update_db_item" /\ last.res = "ok"
   /\ "title" \in DOMAIN last.args.data
   /\ last.before.db_items[last.id].page_id # NULL) =>
    /\ db_items[last.id].title = last.args.data.title
    /\ db_items[last.id].page_id = last.before.db_items[last.id].page_id
    /\ pages[db_items[last.id].page_id].title = last.args.data.title

\* C2 witness: a title update together with properties and sort_order that
\* changed the title of the item and of its page.
C2_Witness ==
  /\ last.op = "update_db_item" /\ last.res = "ok"
  /\ {"title", "properties", "sort_order"} \subseteq DOMAIN last.args.data
  /\ LET old == last.before.db_items[last.id]
     IN /\ old.page_id # NULL
        /\ old.title # last.args.data.title
        /\ last.before.pages[old.page_id].title # last.args.data.title
        /\ pages[old.page_id].title = last.args.data.title

\* C5: an update_db_item that carries properties N leaves the item with
\* N's value for every key of N, the old value for every old key that N
\* does not have, and no other key.
C5_PropertiesMerge ==
  (/\ last.op = "update_db_item" /\ last.res = "ok"
   /\ "properties" \in DOMAIN last.args.data) =>
    LET old == last.before.db_items[last.id].properties
        N == last.args.data.properties
        new == db_items[last.id].properties
    IN /\ DOMAIN new = DOMAIN old \cup DOMAIN N
       /\ \A k \in DOMAIN N : new[k] = N[k]
       /\ \A k \in DOMAIN old \ DOMAIN N : new[k] = old[k]

\* C5 witness: {p1: v1, p2: v3} updated with {p1: v2} is {p1: v2, p2: v3}.
C5_Witness ==
  /\ last.op = "update_db_item" /\ last.res = "ok"
  /\ "properties" \in DOMAIN last.args.data
  /\ last.before.db_items[last.id].properties = [p1 |-> "v1", p2 |-> "v3"]
  /\ last.args.data.properties = [p1 |-> "v2"]
  /\ db_items[last.id].properties = [p1 |-> "v2", p2 |-> "v3"]

\* C6: an update_db_view that carries config C leaves the view's config
\* equal to C, and an update_block that carries properties leaves the
\* block's properties equal to them: no key of the previous bag survives
\* unless the request has it.
C6_ConfigReplaced ==
  /\ (last.op = "update_db_view" /\ last.res = "ok" /\ "config" \in DOMAIN last.args) =>
       db_views[last.id].config = last.args.config
  /\ (last.op = "update_block" /\ last.res = "ok" /\ "properties" \in DOMAIN last.args) =>
       blocks[last.id].properties = last.args.properties

\* C6 witness: a view whose config had a key that the request's config
\* does not have, and has it no longer.
C6_Witness ==
  /\ last.op = "update_db_view" /\ last.res = "ok" /\ "config" \in DOMAIN last.args
  /\ \E k \in DOMAIN last.before.db_views[last.id].config :
       /\ k \notin DOMAIN last.args.config
       /\ k \notin DOMAIN db_views[last.id].config
  /\ DOMAIN last.args.config # {}

\* What C7 promises of a database created for workspace 'projects': the
\* preset schema and one board view grouped by its Status property.
ProjectsPreset(d) ==
  LET schema == databases[d].properties_schema
      views == {v \in DOMAIN db_views : db_views[v].database_id = d}
  IN /\ Len(schema) >= 1
     /\ schema[1].name = "Status"
     /\ schema[1].type = "select"
     /\ Len(schema[1].options) = 4
     /\ Cardinality(views) = 1
     /\ \A v \in views : /\ db_views[v].type = "board"
                          /\ DOMAIN db_views[v].config = {"group_by"}
                          /\ db_views[v].config.group_by = schema[1].id

\* C7 as stated: create_database with workspace 'projects' and no
\* properties_schema stores the Status preset and creates exactly one
\* default view, of type board, grouped by the Status property.
C7_AsStated ==
  (/\ last.op = "create_database" /\ last.res = "ok"
   /\ Get(last.args, "workspace", "projects") = "projects"
   /\ "properties_schema" \notin DOMAIN last.args) =>
    ProjectsPreset(last.id)

\* C7: create_database with workspace 'projects', no properties_schema
\* and no default_view other than board stores the Status preset and
\* creates exactly one default view, of type board, grouped by the Status
\* property.
C7_ProjectsPreset ==
  (/\ last.op = "create_database" /\ last.res = "ok"
   /\ Get(last.args, "workspace", "projects") = "projects"
   /\ "properties_schema" \notin DOMAIN last.args
   /\ Get(last.args, "default_view", "board") = "board") =>
    ProjectsPreset(last.id)

\* C7 witness: a projects database created from a request that names
\* neither a schema nor a default view.
C7_Witness ==
  /\ last.op = "create_database" /\ last.res = "ok"
  /\ last.args = [workspace |-> "projects"]
  /\ ProjectsPreset(last.id)

\* The rows of a table that the last request added.
Added(tbl, old) == DOMAIN tbl \ DOMAIN old

\* Row r of tbl sorts strictly after the rows `scope` had before it came,
\* one above the greatest of them.
AppendedTo(tbl, r, scope) ==
  /\ r \notin scope
  /\ \A q \in scope : tbl[q].sort_order < tbl[r].sort_order
  /\ scope # {} => tbl[r].sort_order = Max({tbl[q].sort_order : q \in scope}) + 1

\* C8: every row a request creates (a page, a block that is not placed by
\* a resolvable after_id, an item, a view, an item's backing page) has an
\* id no row had and sort_order = max(sort_order of its scope) + 1, so it
\* sorts strictly after every row that was in its scope.
C8_AppendAtEnd ==
  last.res = "ok" =>
    /\ \A p \in Added(pages, last.before.pages) :
         AppendedTo(pages, p, page_scope(pages, p) \cap DOMAIN last.before.pages)
    /\ \A b \in Added(blocks, last.before.blocks) :
         (last.op = "create_block" => last.args.after_id \notin DOMAIN last.before.blocks) =>
           AppendedTo(blocks, b, {c \in DOMAIN last.before.blocks :
                                   blocks[c].page_id = blocks[b].page_id})
    /\ \A i \in Added(db_items, last.before.db_items) :
         AppendedTo(db_items, i, {j \in DOMAIN last.before.db_items :
                                   db_items[j].database_id = db_items[i].database_id})
    /\ \A v \in Added(db_views, last.before.db_views) :
         AppendedTo(db_views, v, {w \in DOMAIN last.before.db_views :
                                   db_views[w].database_id = db_views[v].database_id})

\* C9: a create_db_item that succeeds creates a page no row was before,
\* of workspace '_db_item', with exactly one block, which is empty, and
\* the new item's page_id is that page; and in every state no page is
\* the page_id of two items.
C9_BackingPage ==
  /\ (last.op = "create_db_item" /\ last.res = "ok") =>
       LET P == db_items[last.id].page_id
           of_P == {b \in DOMAIN blocks : blocks[b].page_id = P}
       IN /\ P # NULL
          /\ Added(pages, last.before.pages) = {P}
          /\ pages[P].workspace = "_db_item"
          /\ Cardinality(of_P) = 1
          /\ \A b \in of_P : blocks[b].content = "" /\ b \notin DOMAIN last.before.blocks
  /\ \A i, j \in DOMAIN db_items :
       (i # j /\ db_items[i].page_id # NULL) => db_items[i].page_id # db_items[j].page_id

\* C9 witness: a second item created beside one that has its page.
C9_Witness ==
  /\ last.op = "create_db_item" /\ last.res = "ok"
  /\ db_items[last.id].page_id \in DOMAIN pages
  /\ db_items[last.id].page_id \notin DOMAIN last.before.pages
  /\ \E j \in DOMAIN last.before.db_items :
       /\ db_items[j].page_id \in DOMAIN pages
       /\ db_items[j].page_id # db_items[last.id].page_id

\* C10: a delete_db_item on an item that has a backing page removes the
\* item row, the backing page and the blocks of the backing page, and no
\* other item, page or block.
C10_DeleteItem ==
  (/\ last.op = "delete_db_item" /\ last.res = "ok"
   /\ last.id \in DOMAIN last.before.db_items
   /\ last.before.db_items[last.id].page_id # NULL) =>
    LET P == last.before.db_items[last.id].page_id
        of_P == {b \in DOMAIN last.before.blocks : last.before.blocks[b].page_id = P}
    IN /\ DOMAIN db_items = DOMAIN last.before.db_items \ {last.id}
       /\ DOMAIN pages = DOMAIN last.before.pages \ {P}
       /\ DOMAIN blocks = DOMAIN last.before.blocks \ of_P

\* C10 witness: an item deleted with its page and the page's block while
\* another item, its page and its block stay.
C10_Witness ==
  /\ last.op = "delete_db_item" /\ last.res = "ok"
  /\ last.id \in DOMAIN last.before.db_items
  /\ LET P == last.before.db_items[last.id].page_id
     IN /\ P \in DOMAIN last.before.pages
        /\ P \notin DOMAIN pages
        /\ last.id \notin DOMAIN db_items
        /\ \E b \in DOMAIN last.before.blocks :
             last.before.blocks[b].page_id = P /\ b \notin DOMAIN blocks
        /\ \E j \in DOMAIN db_items :
             /\ db_items[j].page_id \in DOMAIN pages
             /\ \E b \in DOMAIN blocks : blocks[b].page_id = db_items[j].page_id

\* The rows of tbl whose column col is v.
RowsWith(tbl, col, v) == {r \in DOMAIN tbl : tbl[r][col] = v}

\* C11: after a delete_database(D) the row D, the items of D, the views of
\* D, the backing pages of those items and the blocks of those pages are
\* gone, and every other database, item, view, page and block is still
\* there.
C11_DeleteDatabase ==
  (/\ last.op = "delete_database" /\ last.res = "ok"
   /\ last.id \in DOMAIN last.before.databases) =>
    LET old == last.before
        items == RowsWith(old.db_items, "database_id", last.id)
        views == RowsWith(old.db_views, "database_id", last.id)
        backing == {old.db_items[i].page_id : i \in items} \ {NULL}
        of_backing == {b \in DOMAIN old.blocks : old.blocks[b].page_id \in backing}
    IN /\ DOMAIN databases = DOMAIN old.databases \ {last.id}
       /\ DOMAIN db_items = DOMAIN old.db_items \ items
       /\ DOMAIN db_views = DOMAIN old.db_views \ views
       /\ DOMAIN pages = DOMAIN old.pages \ backing
       /\ DOMAIN blocks = DOMAIN old.blocks \ of_backing

\* C11 witness: a database deleted with its item, view, backing page and
\* block while another database keeps its item, view, page and block.
C11_Witness ==
  /\ last.op = "delete_database" /\ last.res = "ok"
  /\ \E i \in DOMAIN last.before.db_items :
       /\ last.before.db_items[i].database_id = last.id
       /\ last.before.db_items[i].page_id \in DOMAIN last.before.pages
       /\ last.before.db_items[i].page_id \notin DOMAIN pages
       /\ RowsWith(last.before.blocks, "page_id", last.before.db_items[i].page_id) # {}
  /\ RowsWith(last.before.db_views, "database_id", last.id) # {}
  /\ \E j \in DOMAIN db_items :
       /\ db_items[j].page_id \in DOMAIN pages
       /\ RowsWith(blocks, "page_id", db_items[j].page_id) # {}
       /\ RowsWith(db_views, "database_id", db_items[j].database_id) # {}

\* The tables are as the last request found them.
StoreUnchanged ==
  /\ pages = last.before.pages
  /\ blocks = last.before.blocks
  /\ databases = last.before.databases
  /\ db_items = last.before.db_items
  /\ db_views = last.before.db_views

\* C12: a get or an update of a page, block, database, item or view by an
\* id that has no row ends as not found (404), not as an error, and
\* leaves the tables as they were.
C12_NotFound ==
  /\ (last.op \in {"get_page", "update_page"} /\ last.id \notin DOMAIN last.before.pages) =>
       last.res = "not_found" /\ StoreUnchanged
  /\ (last.op = "update_block" /\ last.id \notin DOMAIN last.before.blocks) =>
       last.res = "not_found" /\ StoreUnchanged
  /\ (last.op \in {"get_database", "update_database"}
        /\ last.id \notin DOMAIN last.before.databases) =>
       last.res = "not_found" /\ StoreUnchanged
  /\ (last.op = "update_db_item" /\ last.id \notin DOMAIN last.before.db_items) =>
       last.res = "not_found" /\ StoreUnchanged
  /\ (last.op = "update_db_view" /\ last.id \notin DOMAIN last.before.db_views) =>
       last.res = "not_found" /\ StoreUnchanged

\* C13: a delete_page of an id that has no row (deleted before, or never
\* there) succeeds and leaves the tables as they were.
C13_DeleteIdempotent ==
  (last.op = "delete_page" /\ last.id \notin DOMAIN last.before.pages) =>
    last.res = "ok" /\ StoreUnchanged

\* C13 witness: a delete of the id of a page that was deleted before
\* (ids are handed out least first, so a missing id below a live one had a
\* row once), in a store that holds pages and blocks.
C13_Witness ==
  /\ last.op = "delete_page" /\ last.res = "ok"
  /\ last.id \notin DOMAIN last.before.pages
  /\ \E q \in DOMAIN pages : q > last.id
  /\ DOMAIN blocks # {}
  /\ StoreUnchanged

\* C14: a page that create_page has made has exactly one block, an empty
\* one, and as long as the page exists it has at least one block (read
\* where create_page is the only request that makes pages).
C14_DefaultBlock ==
  /\ (last.op = "create_page" /\ last.res = "ok") =>
       /\ Cardinality(RowsWith(blocks, "page_id", last.id)) = 1
       /\ \A b \in RowsWith(blocks, "page_id", last.id) : blocks[b].content = ""
  /\ \A p \in DOMAIN pages : RowsWith(blocks, "page_id", p) # {}

\* The pages that some item has as its page_id.
BackingPages == {db_items[i].page_id : i \in DOMAIN db_items} \ {NULL}

\* C15: in every state, no result list of search holds a page entry or a
\* block entry for the backing page of an item.
C15_SearchHidesBacking ==
  \A q \in Queries : \A results \in search(q) :
    \A k \in DOMAIN results :
      results[k].type \in {"page", "block"} => results[k].page_id \notin BackingPages

\* C16: in every result list of search no page_id occurs twice among the
\* page and block entries.
C16_SearchDedup ==
  \A q \in Queries : \A results \in search(q) :
    \A k, l \in DOMAIN results :
      (/\ k # l
       /\ results[k].type \in {"page", "block"}
       /\ results[l].type \in {"page", "block"}) =>
        results[k].page_id # results[l].page_id

\* C16 witness: a page whose title matches "a" and that has two blocks
\* matching "a" and "x": search("a") lists it once, as a page, and
\* search("x") lists it once, as a block.
C16_Witness ==
  \E p \in DOMAIN pages :
    /\ Like(pages[p].title, <<"a">>) /\ pages[p].workspace # "_db_item"
    /\ Cardinality({b \in RowsWith(blocks, "page_id", p) :
                      Like(blocks[b].content, <<"a">>) /\ Like(blocks[b].content, <<"x">>)}) >= 2
    /\ \A results \in search(<<"a">>) :
         {results[k].type : k \in {l \in DOMAIN results : results[l].page_id = p}} = {"page"}
    /\ \A results \in search(<<"x">>) :
         /\ Cardinality({k \in DOMAIN results : results[k].page_id = p}) = 1
         /\ \E k \in DOMAIN results : results[k] = search_result("block", p, NULL)

\* C17: in every state the parent_id of each page is NULL or the id of a
\* page; no create_page, update_page, delete_page or delete_page tool
\* leaves a page with a parent that has no row.
C17_ParentExists ==
  \A p \in DOMAIN pages :
    pages[p].parent_id = NULL \/ pages[p].parent_id \in DOMAIN pages

\* C17 witness: the delete_page tool has removed a page that had a child;
\* the child is still there, with no parent.
C17_Witness ==
  /\ last.op = "tool_delete_page" /\ last.res = "ok"
  /\ last.id \in DOMAIN last.before.pages
  /\ \E q \in DOMAIN pages :
       /\ last.before.pages[q].parent_id = last.id
       /\ pages[q].parent_id = NULL

\* C18 as stated: two reorders of the same scope that run at the same time
\* interleave their per-id updates (no locking): while one has applied some
\* of its updates and has not committed, the other's next update goes ahead.
C18_AsStated ==
  \A c \in Conns, d \in Conns :
    ( /\ c # d
      /\ txn[c].pc = "run" /\ txn[d].pc = "run"
      /\ txn[c].op = txn[d].op /\ txn[c].id = txn[d].id
      /\ txn[c].n > 0
      /\ txn[d].n < Len(txn[d].stmts) )
    => can_write(d)

\* C18 on the code: the updates of two reorders that run at the same time
\* never interleave.  At most one connection holds uncommitted updates, and
\* every reorder that commits leaves the scope exactly as its whole list
\* applied to the tables committed before it: the final state is that of
\* the reorders one after the other.
C18_Serialised ==
  /\ \A c \in Conns, d \in Conns :
       (c # d /\ txn[c].pc = "run" /\ txn[d].pc = "run") =>
         ~(txn[c].n > 0 /\ txn[d].n > 0)
  /\ (last.op = "reorder_pages" /\ last.res = "ok") =>
       /\ pages = reorder_rows(last.before.pages, last.args, 0, NULL)
       /\ blocks = last.before.blocks
  /\ (last.op = "reorder_blocks" /\ last.res = "ok") =>
       /\ blocks = reorder_rows(last.before.blocks, last.args, 0, last.id)
       /\ pages = last.before.pages

\* A reorder of the root pages has committed and changed their order while
\* another reorder naming one of the same pages, begun before that commit,
\* still has all its updates to apply.
C18_Witness ==
  /\ last.op = "reorder_pages" /\ last.res = "ok"
  /\ pages # last.before.pages
  /\ \E d \in Conns :
       /\ txn[d].pc = "run" /\ txn[d].op = "reorder_pages" /\ txn[d].n = 0
       /\ txn[d].base.pages = last.before.pages
       /\ txn[d].args # last.args
       /\ \E i \in 1..Len(txn[d].args), j \in 1..Len(last.args) :
            txn[d].args[i] = last.args[j]

\* The tables of an image.
TablesOf(s) ==
  [pages |-> s.pages, blocks |-> s.blocks, databases |-> s.databases,
   db_items |-> s.db_items, db_views |-> s.db_views]

\* C19 as stated: a handler of several statements that ends between two
\* of them, after statements that changed something, leaves the effects of
\* the statements it executed in the persisted tables.
C19_AsStated ==
  ( /\ last.res = "interrupted"
    /\ last.args.n > 0 /\ last.args.n < Len(last.args.stmts)
    /\ TablesOf(last.args.view) # last.args.base )
  => Tables = TablesOf(last.args.view)

\* C19 on the code: the statements of a handler run in one transaction
\* committed once at its end, so while the handler runs, and after it was
\* ended between two statements, the persisted tables are those the
\* request found: no part of its effects is present.
C19_Atomic ==
  /\ \A c \in Conns : txn[c].pc = "run" => Tables = txn[c].base
  /\ last.res = "interrupted" => Tables = last.args.base

\* A page delete ended after it had deleted a child and before it deleted
\* the page itself.
C19_Witness ==
  /\ last.op = "delete_page" /\ last.res = "interrupted"
  /\ last.args.n > 0 /\ last.args.n < Len(last.args.stmts)
  /\ last.id \in DOMAIN last.args.view.pages
  /\ \E q \in DOMAIN last.args.base.pages :
       /\ last.args.base.pages[q].parent_id = last.id
       /\ q \notin DOMAIN last.args.view.pages

\* C20: the chat tools leave the state the stores' operations leave.  After
\* the delete_page tool the page, its whole subtree and their blocks are
\* gone and every other row is as before; after the update_project_item
\* tool with a title the item and its backing page carry that title.
C20_ToolsAsStores ==
  /\ (last.op = "tool_delete_page" /\ last.res = "ok") =>
       LET gone == Subtree(last.before.pages, last.id)
       IN /\ DOMAIN pages = DOMAIN last.before.pages \ gone
          /\ DOMAIN blocks =
               {b \in DOMAIN last.before.blocks : last.before.blocks[b].page_id \notin gone}
  /\ ( /\ last.op = "tool_update_project_item" /\ last.res = "ok"
       /\ "title" \in DOMAIN last.args.data
       /\ last.id \in DOMAIN last.before.db_items
       /\ last.before.db_items[last.id].page_id # NULL ) =>
       /\ db_items[last.id].title = last.args.data.title
       /\ pages[db_items[last.id].page_id].title = last.args.data.title

\* The table now has the rows of table was, all of them unchanged except
\* row id, which keeps every column outside supplied and every column of
\* owners.
RowFrame(now, was, id, supplied, owners) ==
  /\ DOMAIN now = DOMAIN was
  /\ \A r \in DOMAIN now : r # id => now[r] = was[r]
  /\ \A f \in DOMAIN was[id] :
       (f \notin supplied \/ f \in owners) => now[id][f] = was[id][f]

\* C21: an update changes only the columns its body supplies, on the row
\* it names: every other column and every other row keeps its value, no
\* row appears or disappears, and no update writes a block's page_id, an
\* item's database_id or page_id, or a view's database_id; the one
\* ownership column an update can write is parent_id of the page it names.
\* (The item update with a title also writes that title to the item's
\* page, and nothing else of it.)
C21_UpdateFrame ==
  /\ (last.op = "update_page" /\ last.res = "ok") =>
       /\ RowFrame(pages, last.before.pages, last.id, DOMAIN last.args, {})
       /\ blocks = last.before.blocks /\ databases = last.before.databases
       /\ db_items = last.before.db_items /\ db_views = last.before.db_views
  /\ (last.op = "update_block" /\ last.res = "ok") =>
       /\ RowFrame(blocks, last.before.blocks, last.id, DOMAIN last.args, {"page_id"})
       /\ pages = last.before.pages /\ databases = last.before.databases
       /\ db_items = last.before.db_items /\ db_views = last.before.db_views
  /\ (last.op = "update_db_item" /\ last.res = "ok") =>
       /\ RowFrame(db_items, last.before.db_items, last.id, DOMAIN last.args.data,
                   {"database_id", "page_id"})
       /\ DOMAIN pages = DOMAIN last.before.pages
       /\ \A q \in DOMAIN pages :
            /\ [pages[q] EXCEPT !.title = last.before.pages[q].title] = last.before.pages[q]
            /\ (q # last.before.db_items[last.id].page_id
                  \/ "title" \notin DOMAIN last.args.data) => pages[q] = last.before.pages[q]
       /\ blocks = last.before.blocks /\ databases = last.before.databases
       /\ db_views = last.before.db_views
  /\ (last.op = "update_db_view" /\ last.res = "ok") =>
       /\ RowFrame(db_views, last.before.db_views, last.id, DOMAIN last.args, {"database_id"})
       /\ pages = last.before.pages /\ blocks = last.before.blocks
       /\ databases = last.before.databases /\ db_items = last.before.db_items
  /\ (last.op = "update_database" /\ last.res = "ok") =>
       /\ RowFrame(databases, last.before.databases, last.id, DOMAIN last.args, {})
       /\ pages = last.before.pages /\ blocks = last.before.blocks
       /\ db_items = last.before.db_items /\ db_views = last.before.db_views
  /\ (last.op \in {"update_page", "update_block", "update_db_item", "update_db_view",
                   "update_database"} /\ last.res # "ok") => StoreUnchanged

\* A block update whose body names another page as page_id has written the
\* block's sort_order and left it on its page.
C21_Witness ==
  /\ last.op = "update_block" /\ last.res = "ok"
  /\ "page_id" \in DOMAIN last.args
  /\ last.args.page_id # last.before.blocks[last.id].page_id
  /\ blocks[last.id].sort_order # last.before.blocks[last.id].sort_order
  /\ blocks[last.id].page_id = last.before.blocks[last.id].page_id

\* C21 as stated: the supplied columns of the named row and the stamps are
\* all an update changes, so an item update leaves every page as it was.
C21_AsStated ==
  /\ C21_UpdateFrame
  /\ (last.op = "update_db_item" /\ last.res = "ok") => pages = last.before.pages

\* C22: reorder_pages(L) writes the sort_order of the pages named in L and
\* nothing else: no other column of any page, no page outside L (a sibling
\* L leaves out keeps its sort_order), no row of another table.
C22_ReorderFrame ==
  (last.op = "reorder_pages" /\ last.res = "ok") =>
    LET listed == {last.args[i] : i \in 1..Len(last.args)}
    IN /\ DOMAIN pages = DOMAIN last.before.pages
       /\ \A p \in DOMAIN pages :
            /\ [pages[p] EXCEPT !.sort_order = last.before.pages[p].sort_order]
                 = last.before.pages[p]
            /\ p \notin listed => pages[p] = last.before.pages[p]
       /\ blocks = last.before.blocks /\ databases = last.before.databases
       /\ db_items = last.before.db_items /\ db_views = last.before.db_views

\* A reorder that left a sibling out has given a listed page the
\* sort_order that sibling keeps: two pages of one scope with one key,
\* which had different keys before.
C22_Witness ==
  /\ last.op = "reorder_pages" /\ last.res = "ok"
  /\ \E p \in DOMAIN pages, q \in DOMAIN pages :
       /\ p # q
       /\ q \in page_scope(pages, p)
       /\ p \in {last.args[i] : i \in 1..Len(last.args)}
       /\ q \notin {last.args[i] : i \in 1..Len(last.args)}
       /\ last.before.pages[p].sort_order # last.before.pages[q].sort_order
       /\ pages[q].sort_order = last.before.pages[q].sort_order
       /\ pages[p].sort_order = pages[q].sort_order

\* C23: reorder_blocks(page_id, L) writes the sort_order of the blocks that
\* are named in L and owned by page_id, and nothing else: a block of L that
\* is on another page keeps its row, as does every block outside L, and no
\* other column or table changes.
C23_ReorderScoped ==
  (last.op = "reorder_blocks" /\ last.res = "ok") =>
    LET listed == {last.args[i] : i \in 1..Len(last.args)}
    IN /\ DOMAIN blocks = DOMAIN last.before.blocks
       /\ \A b \in DOMAIN blocks :
            /\ [blocks[b] EXCEPT !.sort_order = last.before.blocks[b].sort_order]
                 = last.before.blocks[b]
            /\ (b \notin listed \/ last.before.blocks[b].page_id # last.id) =>
                 blocks[b] = last.before.blocks[b]
       /\ pages = last.before.pages /\ databases = last.before.databases
       /\ db_items = last.before.db_items /\ db_views = last.before.db_views

\* A reorder of one page's blocks whose list also names a block of another
\* page, at a position that is not that block's sort_order: the page's own
\* block has taken its position and the other page's block kept its key.
C23_Witness ==
  /\ last.op = "reorder_blocks" /\ last.res = "ok"
  /\ \E i \in 1..Len(last.args), j \in 1..Len(last.args) :
       /\ last.args[i] \in DOMAIN blocks /\ last.args[j] \in DOMAIN blocks
       /\ last.before.blocks[last.args[i]].page_id = last.id
       /\ last.before.blocks[last.args[i]].sort_order # i - 1
       /\ blocks[last.args[i]].sort_order = i - 1
       /\ last.before.blocks[last.args[j]].page_id # last.id
       /\ last.before.blocks[last.args[j]].sort_order # j - 1
       /\ blocks[last.args[j]] = last.before.blocks[last.args[j]]

\* C24: a delete never reaches the owner of what it deletes.  In every
\* state an item's page_id is NULL or the id of a page; a page delete (the
\* handler or the chat tool) leaves every item, view and database in place,
\* an item that was linked to a deleted page with page_id NULL and every
\* other item as it was; a block delete leaves every page in place.
C24_NoUpwardCascade ==
  /\ \A i \in DOMAIN db_items :
       db_items[i].page_id = NULL \/ db_items[i].page_id \in DOMAIN pages
  /\ (last.op \in {"delete_page", "tool_delete_page"} /\ last.res = "ok") =>
       /\ DOMAIN db_items = DOMAIN last.before.db_items
       /\ \A i \in DOMAIN db_items :
            db_items[i] =
              IF last.before.db_items[i].page_id \in DOMAIN pages
                THEN last.before.db_items[i]
                ELSE [last.before.db_items[i] EXCEPT !.page_id = NULL]
       /\ databases = last.before.databases
       /\ db_views = last.before.db_views
  /\ (last.op = "delete_block" /\ last.res = "ok") =>
       /\ pages = last.before.pages
       /\ DOMAIN blocks = DOMAIN last.before.blocks \ {last.id}
       /\ db_items = last.before.db_items

\* The page that backed an item was deleted: the item is still there, its
\* page_id now NULL.
C24_Witness ==
  /\ last.op = "delete_page" /\ last.res = "ok"
  /\ last.id \in DOMAIN last.before.pages
  /\ \E i \in DOMAIN db_items :
       /\ last.before.db_items[i].page_id = last.id
       /\ db_items[i].page_id = NULL

\* C25: delete_page(P) of a page that exists ends normally and P is gone,
\* whatever the parent_id columns hold, a page that is its own ancestor
\* included.
C25_DeleteTerminates ==
  (last.op = "delete_page" /\ last.id \in DOMAIN last.before.pages) =>
    /\ last.res = "ok"
    /\ last.id \notin DOMAIN pages

\* C26: a create that has committed, alone or next to another create of
\* the same scope, has given its entity a sort_order no other entity of
\* the scope has: a new page among the pages of its parent (of its
\* workspace, at the root), a new block among the blocks of its page, a
\* new item among the items of its database.
C26_DistinctOrders ==
  /\ (last.op = "create_page" /\ last.res = "ok") =>
       \A q \in page_scope(pages, last.id) \ {last.id} :
         pages[q].sort_order # pages[last.id].sort_order
  /\ (last.op = "create_block" /\ last.res = "ok") =>
       \A b \in DOMAIN blocks \ {last.id} :
         blocks[b].page_id = blocks[last.id].page_id =>
           blocks[b].sort_order # blocks[last.id].sort_order
  /\ (last.op = "create_db_item" /\ last.res = "ok") =>
       \A i \in DOMAIN db_items \ {last.id} :
         db_items[i].database_id = db_items[last.id].database_id =>
           db_items[i].sort_order # db_items[last.id].sort_order

\* The blocks of page p in the blocks table tbl.
blocks_of(tbl, p) == {b \in DOMAIN tbl : tbl[b].page_id = p}

\* C27: over block creates (appended, or after a block of any page) and
\* block deletes, the blocks of a page keep pairwise different sort_order
\* values, and the blocks of the page that were there before a create or
\* a delete and are still there keep their relative order.
C27_BlockOrderKept ==
  /\ \A a \in DOMAIN blocks, b \in DOMAIN blocks :
       (a # b /\ blocks[a].page_id = blocks[b].page_id) =>
         blocks[a].sort_order # blocks[b].sort_order
  /\ (last.op \in {"create_block", "delete_block"} /\ last.res = "ok") =>
       \A p \in DOMAIN pages :
         \A a \in blocks_of(last.before.blocks, p) \cap DOMAIN blocks,
            b \in blocks_of(last.before.blocks, p) \cap DOMAIN blocks :
           /\ blocks[a].page_id = p
           /\ (last.before.blocks[a].sort_order < last.before.blocks[b].sort_order)
                <=> (blocks[a].sort_order < blocks[b].sort_order)

\* A block was created on one page after a block of another page: a block
\* of the page has moved up to make room and the new block has the freed
\* sort_order.
C27_Witness ==
  /\ last.op = "create_block" /\ last.res = "ok"
  /\ last.args.after_id \in DOMAIN last.before.blocks
  /\ last.before.blocks[last.args.after_id].page_id # last.args.page_id
  /\ \E b \in blocks_of(last.before.blocks, last.args.page_id) :
       /\ blocks[b].sort_order = last.before.blocks[b].sort_order + 1
       /\ blocks[last.id].sort_order = last.before.blocks[b].sort_order
  /\ \E a \in blocks_of(last.before.blocks, last.args.page_id) :
       blocks[a].sort_order < blocks[last.id].sort_order

\* C28: an item request addressed through database D (update_db_item,
\* delete_db_item, reorder_db_items) leaves every item of another database
\* in place and as it was, and the database it stamps is the one that
\* owns the items it wrote or deleted.
C28_ItemScope ==
  (last.op \in {"update_db_item", "delete_db_item", "reorder_db_items"}) =>
    LET D == IF last.op = "reorder_db_items" THEN last.id ELSE last.args.db_id
        old == last.before.db_items
    IN /\ \A i \in DOMAIN old :
            old[i].database_id # D => (i \in DOMAIN db_items /\ db_items[i] = old[i])
       /\ \A d \in DOMAIN last.before.databases, i \in DOMAIN old :
            ( /\ <<"databases", d>> \in last.stamped
              /\ (i \notin DOMAIN db_items \/ db_items[i] # old[i]) )
            => old[i].database_id = d

====
